---- MODULE Spec2Model ----
(***************************************************************************)
(* A model of the SEPD telemetry client: the nom-based packet parser       *)
(* (src/src/parser/mod.rs), the TCP stream reader and the TCP / UDP client *)
(* state machines (src/src/client.rs).                                     *)
(*                                                                         *)
(* Bytes are the integers 0..255 and a slice is a sequence of bytes.       *)
(* Numbers wider than 16 bits are kept as big-endian 16-bit limbs, most    *)
(* significant first (a u32 is <<hi, lo>>, a u64 or the bit pattern of an  *)
(* f64 four limbs), so that every value stays inside TLC's integers.       *)
(***************************************************************************)
EXTENDS Integers, Sequences, FiniteSets, TLC

(***************************************************************************)
(* Slices                                                                  *)
(***************************************************************************)
Drop(s, n) == SubSeq(s, n + 1, Len(s))

Take(s, n) == SubSeq(s, 1, n)

Max(a, b) == IF a >= b THEN a ELSE b

Zeros(n) == [k \in 1..n |-> 0]

IsPrefix(p, s) == Len(p) <= Len(s) /\ Take(s, Len(p)) = p

RECURSIVE Flatten(_)
Flatten(ss) == IF ss = <<>> THEN <<>> ELSE Head(ss) \o Flatten(Tail(ss))

(***************************************************************************)
(* nom results.  A parser returns Ok(rest, val), a recoverable failure     *)
(* (nom::Err::Error / Failure / Incomplete, which every caller here treats *)
(* alike) or unwinds with a panic (unimplemented!(), todo!()).             *)
(***************************************************************************)
Ok(rest, val) == [st |-> "Ok", rest |-> rest, val |-> val]

ParseErr == [st |-> "Err", rest |-> <<>>, val |-> <<>>]

ParsePanic == [st |-> "Panic", rest |-> <<>>, val |-> <<>>]

\* `let a = v;` followed by F(a): v is evaluated once.
Bind(v, F(_)) == F(v)

\* `let a = r?;` followed by F(a): an r that failed is returned as it is.
AndThen(r, F(_)) == IF r.st # "Ok" THEN r ELSE F(r)

(***************************************************************************)
(* Numbers (nom::number::complete, big-endian)                             *)
(***************************************************************************)
parse_u8(i) == IF Len(i) < 1 THEN ParseErr ELSE Ok(Drop(i, 1), i[1])

parse_u16(i) == IF Len(i) < 2 THEN ParseErr ELSE Ok(Drop(i, 2), i[1] * 256 + i[2])

parse_u32(i) ==
    IF Len(i) < 4 THEN ParseErr
    ELSE Ok(Drop(i, 4), <<i[1] * 256 + i[2], i[3] * 256 + i[4]>>)

parse_s32(i) ==
    IF Len(i) < 4 THEN ParseErr
    ELSE LET hi == i[1] * 256 + i[2]
         IN  Ok(Drop(i, 4), <<IF hi >= 32768 THEN hi - 65536 ELSE hi, i[3] * 256 + i[4]>>)

parse_u64(i) ==
    IF Len(i) < 8 THEN ParseErr
    ELSE Ok(Drop(i, 8), <<i[1] * 256 + i[2], i[3] * 256 + i[4],
                          i[5] * 256 + i[6], i[7] * 256 + i[8]>>)

parse_f32(i) ==
    IF Len(i) < 4 THEN ParseErr
    ELSE Ok(Drop(i, 4), <<i[1] * 256 + i[2], i[3] * 256 + i[4]>>)

parse_f64(i) ==
    IF Len(i) < 8 THEN ParseErr
    ELSE Ok(Drop(i, 8), <<i[1] * 256 + i[2], i[3] * 256 + i[4],
                          i[5] * 256 + i[6], i[7] * 256 + i[8]>>)

(***************************************************************************)
(* count(f, n): n applications of the f64 parser, as the point, vector and *)
(* quaternion parsers chain them with `?`.                                 *)
(***************************************************************************)
RECURSIVE f64_seq(_, _, _)
f64_seq(i, n, acc) ==
    IF n = 0 THEN Ok(i, acc)
    ELSE AndThen(parse_f64(i), LAMBDA r : f64_seq(r.rest, n - 1, Append(acc, r.val)))

parse_point_2d(i) == f64_seq(i, 2, <<>>)

parse_vect_2d(i) == f64_seq(i, 2, <<>>)

parse_point_3d(i) == f64_seq(i, 3, <<>>)

parse_vect_3d(i) == f64_seq(i, 3, <<>>)

parse_quaternion(i) == f64_seq(i, 4, <<>>)

(***************************************************************************)
(* String::from_utf8: the well-formed UTF-8 byte sequences of the Unicode  *)
(* standard (table 3-7).                                                   *)
(***************************************************************************)
IsCont(b) == b >= 128 /\ b <= 191

RECURSIVE from_utf8_ok(_)
from_utf8_ok(s) ==
    IF s = <<>> THEN TRUE
    ELSE LET b == s[1]
             n == Len(s)
         IN  IF b <= 127 THEN from_utf8_ok(Drop(s, 1))
             ELSE IF b >= 194 /\ b <= 223
             THEN n >= 2 /\ IsCont(s[2]) /\ from_utf8_ok(Drop(s, 2))
             ELSE IF b >= 224 /\ b <= 239
             THEN /\ n >= 3
                  /\ IsCont(s[2])
                  /\ IsCont(s[3])
                  /\ (b = 224 => s[2] >= 160)
                  /\ (b = 237 => s[2] <= 159)
                  /\ from_utf8_ok(Drop(s, 3))
             ELSE IF b >= 240 /\ b <= 244
             THEN /\ n >= 4
                  /\ IsCont(s[2])
                  /\ IsCont(s[3])
                  /\ IsCont(s[4])
                  /\ (b = 240 => s[2] >= 144)
                  /\ (b = 244 => s[2] <= 143)
                  /\ from_utf8_ok(Drop(s, 4))
             ELSE FALSE

parse_string(i) ==
    AndThen(parse_u16(i), LAMBDA l :
        IF Len(l.rest) < l.val THEN ParseErr
        ELSE IF ~from_utf8_ok(Take(l.rest, l.val)) THEN ParseErr
        ELSE Ok(Drop(l.rest, l.val), Take(l.rest, l.val)))

(***************************************************************************)
(* World intersections and user markers                                    *)
(***************************************************************************)
parse_world_intersection_item(i) ==
    AndThen(parse_point_3d(i), LAMBDA w :
    AndThen(parse_point_3d(w.rest), LAMBDA o :
    AndThen(parse_string(o.rest), LAMBDA s :
        Ok(s.rest, <<w.val, o.val, s.val>>))))

parse_world_intersection(i) ==
    AndThen(parse_u16(i), LAMBDA e :
        IF e.val = 0 THEN Ok(e.rest, <<"None">>)
        ELSE IF e.val = 1
        THEN AndThen(parse_world_intersection_item(e.rest), LAMBDA w :
                 Ok(w.rest, <<"Some", w.val>>))
        ELSE ParsePanic)

RECURSIVE world_intersection_items(_, _, _)
world_intersection_items(i, n, acc) ==
    IF n = 0 THEN Ok(i, acc)
    ELSE AndThen(parse_world_intersection_item(i), LAMBDA r :
             world_intersection_items(r.rest, n - 1, Append(acc, r.val)))

parse_world_intersections(i) ==
    AndThen(parse_u16(i), LAMBDA n : world_intersection_items(n.rest, n.val, <<>>))

parse_user_marker_item(i) ==
    AndThen(parse_s32(i), LAMBDA e :
    AndThen(parse_u64(e.rest), LAMBDA t :
    AndThen(parse_u64(t.rest), LAMBDA c :
    AndThen(parse_u8(c.rest), LAMBDA x :
    AndThen(parse_u64(x.rest), LAMBDA d :
        Ok(d.rest, <<e.val, t.val, c.val, x.val, d.val>>))))))

parse_user_marker(i) ==
    AndThen(parse_u16(i), LAMBDA e :
        IF e.val = 0 THEN Ok(e.rest, <<"None">>)
        ELSE IF e.val = 1
        THEN AndThen(parse_user_marker_item(e.rest), LAMBDA m :
                 Ok(m.rest, <<"Some", m.val>>))
        ELSE ParsePanic)

(***************************************************************************)
(* Variants: impl TryFrom<u16> for SETypeId and parse_variant              *)
(***************************************************************************)
SETypeId_try_from(value) ==
    CASE value = 0 -> "U8"
      [] value = 1 -> "U16"
      [] value = 2 -> "U32"
      [] value = 3 -> "S32"
      [] value = 4 -> "U64"
      [] value = 5 -> "F64"
      [] value = 6 -> "Point2D"
      [] value = 7 -> "Vect2D"
      [] value = 8 -> "Point3D"
      [] value = 9 -> "Vect3D"
      [] value = 10 -> "String"
      [] value = 11 -> "Vector"
      [] value = 12 -> "Struct"
      [] value = 13 -> "WorldIntersection"
      [] value = 14 -> "WorldIntersections"
      [] value = 15 -> "PacketHeader"
      [] value = 16 -> "SubPacketHeader"
      [] value = 17 -> "F32"
      [] value = 18 -> "Matrix3X3"
      [] value = 19 -> "Matrix2x2"
      [] value = 20 -> "Quaternion"
      [] value = 21 -> "UserMarker"
      [] OTHER -> "Err"

Tagged(t, r) == AndThen(r, LAMBDA a : Ok(a.rest, <<t, a.val>>))

(***************************************************************************)
(* parse_variant, parse_vector and parse_struct call one another: a vector *)
(* or struct holds variants.  The calls are laid out as a machine with an  *)
(* explicit stack, one frame for every count(...) that is under way, so    *)
(* that the nesting depth of the decoder is the height of the stack.  A    *)
(* machine is [i, stack, mode, st, val, depth]: the input left, the        *)
(* frames, what to do next ("variant": parse_variant is entered; "items":  *)
(* the count of the top frame goes on; "done"), the result, and the        *)
(* highest the stack has been.                                             *)
(***************************************************************************)
\* The arms of parse_variant's match that call no variant parser.
variant_leaf(type_id, i) ==
    CASE type_id = "U8" -> Tagged(type_id, parse_u8(i))
      [] type_id = "U16" -> Tagged(type_id, parse_u16(i))
      [] type_id = "U32" -> Tagged(type_id, parse_u32(i))
      [] type_id = "S32" -> Tagged(type_id, parse_s32(i))
      [] type_id = "U64" -> Tagged(type_id, parse_u64(i))
      [] type_id = "F64" -> Tagged(type_id, parse_f64(i))
      [] type_id = "Point2D" -> Tagged(type_id, parse_point_2d(i))
      [] type_id = "Vect2D" -> Tagged(type_id, parse_vect_2d(i))
      [] type_id = "Point3D" -> Tagged(type_id, parse_point_3d(i))
      [] type_id = "Vect3D" -> Tagged(type_id, parse_vect_3d(i))
      [] type_id = "String" -> Tagged(type_id, parse_string(i))
      [] type_id = "WorldIntersection" -> Tagged(type_id, parse_world_intersection(i))
      [] type_id = "WorldIntersections" -> Tagged(type_id, parse_world_intersections(i))
      [] type_id = "PacketHeader" -> ParsePanic
      [] type_id = "SubPacketHeader" -> ParsePanic
      [] type_id = "F32" -> Tagged(type_id, parse_f32(i))
      [] type_id = "Matrix3X3" -> ParsePanic
      [] type_id = "Matrix2x2" -> ParsePanic
      [] type_id = "Quaternion" -> Tagged(type_id, parse_quaternion(i))
      [] type_id = "UserMarker" -> Tagged(type_id, parse_user_marker(i))

Machine(i, stack, mode) ==
    [i |-> i, stack |-> stack, mode |-> mode, st |-> "Run", val |-> <<>>,
     depth |-> Len(stack)]

\* count(parse_vector_item, n) or count(parse_struct_item, n) under way.
Frame(type_id, n) == [kind |-> type_id, left |-> n, acc |-> <<>>, key |-> <<>>]

Top(m) == m.stack[Len(m.stack)]

\* `?` on a failed result: every caller up the stack returns it.
Fail(m, st) == [m EXCEPT !.mode = "done", !.st = st, !.stack = <<>>]

\* parse_vector / parse_struct: `let (i, length) = parse_u16(i)?`, then count.
Enter(m, type_id, i) ==
    Bind(parse_u16(i), LAMBDA length :
        IF length.st # "Ok" THEN Fail(m, length.st)
        ELSE [m EXCEPT !.i = length.rest,
                       !.stack = Append(@, Frame(type_id, length.val)),
                       !.mode = "items",
                       !.depth = Max(@, Len(m.stack) + 1)])

\* A variant was decoded: it is the result, or the item the count of the
\* top frame was waiting for.
Return(m, rest, v) ==
    IF m.stack = <<>>
    THEN [m EXCEPT !.i = rest, !.mode = "done", !.st = "Ok", !.val = v]
    ELSE [m EXCEPT !.i = rest,
                   !.mode = "items",
                   !.stack[Len(m.stack)].left = @ - 1,
                   !.stack[Len(m.stack)].acc =
                       Append(@, IF Top(m).kind = "Vector" THEN v ELSE <<Top(m).key, v>>)]

variant_step(m) ==
    IF m.mode = "variant"
    THEN Bind(parse_u16(m.i), LAMBDA t :
             IF t.st # "Ok" THEN Fail(m, t.st)
             ELSE Bind(SETypeId_try_from(t.val), LAMBDA type_id :
                      IF type_id = "Err" THEN Fail(m, "Err")
                      ELSE IF type_id \in {"Vector", "Struct"}
                      THEN Enter(m, type_id, t.rest)
                      ELSE Bind(variant_leaf(type_id, t.rest), LAMBDA v :
                               IF v.st # "Ok" THEN Fail(m, v.st)
                               ELSE Return(m, v.rest, v.val))))
    ELSE IF Top(m).left = 0
    THEN Return([m EXCEPT !.stack = Take(@, Len(@) - 1)], m.i, <<Top(m).kind, Top(m).acc>>)
    ELSE IF Top(m).kind = "Vector"
    THEN [m EXCEPT !.mode = "variant"]
    ELSE Bind(parse_string(m.i), LAMBDA key :
             IF key.st # "Ok" THEN Fail(m, key.st)
             ELSE [m EXCEPT !.i = key.rest,
                            !.mode = "variant",
                            !.stack[Len(m.stack)].key = key.val])

\* The first n steps of the machine, or fewer when it is done; the steps
\* are split in halves so that the evaluation stays shallow.
RECURSIVE variant_turns(_, _)
variant_turns(m, n) ==
    IF m.mode = "done" THEN m
    ELSE IF n <= 1 THEN variant_step(m)
    ELSE variant_turns(variant_turns(m, n \div 2), n - (n \div 2))

\* Every variant entered takes at least the two bytes of its tag, and every
\* frame is pushed by one, so the machine is done within this many steps.
variant_run(m) == variant_turns(m, 3 * Len(m.i) + 4)

variant_result(m) ==
    IF m.st = "Ok" THEN Ok(m.i, m.val)
    ELSE IF m.st = "Panic" THEN ParsePanic
    ELSE IF m.st = "Err" THEN ParseErr
    ELSE [st |-> "Run", rest |-> m.i, val |-> <<>>]

parse_variant(i) == variant_result(variant_run(Machine(i, <<>>, "variant")))

\* The deepest parse_variant on i has count(...) calls nested.
variant_depth(i) == variant_run(Machine(i, <<>>, "variant")).depth

\* Called by parse_sub_packet_data: the items, without a tag.
parse_vector(i) ==
    AndThen(variant_result(variant_run(Enter(Machine(i, <<>>, "items"), "Vector", i))),
            LAMBDA v : Ok(v.rest, v.val[2]))

parse_struct(i) ==
    AndThen(variant_result(variant_run(Enter(Machine(i, <<>>, "items"), "Struct", i))),
            LAMBDA v : Ok(v.rest, v.val[2]))

parse_vector_item(i) == parse_variant(i)

parse_struct_item(i) ==
    AndThen(parse_string(i), LAMBDA key :
    AndThen(parse_variant(key.rest), LAMBDA value :
        Ok(value.rest, <<key.val, value.val>>)))

(***************************************************************************)
(* The field table.  SEOutputDataId and its TryFrom<u16> live in a file of *)
(* the crate that is not part of the sources at hand; the parser's tests   *)
(* fix 0x0001 = SEFrameNumber and 0x0003 = SETimeStamp, and the remaining  *)
(* numbers follow the vendor's table.  One id is kept for every decoder    *)
(* parse_sub_packet_data selects; all other ids are unknown.               *)
(***************************************************************************)
SEOutputDataId_try_from(id) ==
    CASE id = 1 -> "SEFrameNumber"
      [] id = 3 -> "SETimeStamp"
      [] id = 5 -> "SEFrameRate"
      [] id = 6 -> "SECameraPositions"
      [] id = 86 -> "SEKeyboardState"
      [] id = 164 -> "SEASCIIKeyboardState"
      [] id = 928 -> "SEUserMarker"
      [] id = 16 -> "SEHeadPosition"
      [] id = 18 -> "SEHeadRotationRodrigues"
      [] id = 29 -> "SEHeadRotationQuaternion"
      [] id = 64 -> "SEClosestWorldIntersection"
      [] id = 65 -> "SEAllWorldIntersections"
      [] id = 912 -> "SELeftEyelidState"
      [] id = 1136 -> "SEGPSPosition"
      [] id = 192 -> "SETrackingState"
      [] id = 193 -> "SEEyeglassesStatus"
      [] id = 194 -> "SEReflexReductionStateDEPRECATED"
      [] OTHER -> "Err"

parse_sub_packet_header(i) ==
    IF Len(i) < 4 THEN ParseErr
    ELSE AndThen(parse_u16(Take(i, 4)), LAMBDA id :
         Bind(SEOutputDataId_try_from(id.val), LAMBDA data_id :
             IF data_id = "Err" THEN ParseErr
             ELSE AndThen(parse_u16(id.rest), LAMBDA length :
                      Ok(Drop(i, 4), [id |-> data_id, length |-> length.val]))))

parse_sub_packet_data(data_id, i) ==
    CASE data_id = "SEFrameNumber" -> Tagged(data_id, parse_u32(i))
      [] data_id = "SETimeStamp" -> Tagged(data_id, parse_u64(i))
      [] data_id = "SEFrameRate" -> Tagged(data_id, parse_f64(i))
      [] data_id = "SECameraPositions" -> Tagged(data_id, parse_vector(i))
      [] data_id = "SEKeyboardState" -> Tagged(data_id, parse_string(i))
      [] data_id = "SEASCIIKeyboardState" -> Tagged(data_id, parse_u16(i))
      [] data_id = "SEUserMarker" -> Tagged(data_id, parse_user_marker(i))
      [] data_id = "SEHeadPosition" -> Tagged(data_id, parse_point_3d(i))
      [] data_id = "SEHeadRotationRodrigues" -> Tagged(data_id, parse_vect_3d(i))
      [] data_id = "SEHeadRotationQuaternion" -> Tagged(data_id, parse_quaternion(i))
      [] data_id = "SEClosestWorldIntersection" ->
             Tagged(data_id, parse_world_intersection(i))
      [] data_id = "SEAllWorldIntersections" ->
             Tagged(data_id, parse_world_intersections(i))
      [] data_id = "SELeftEyelidState" -> Tagged(data_id, parse_u8(i))
      [] data_id = "SEGPSPosition" -> Tagged(data_id, parse_point_2d(i))
      [] data_id = "SETrackingState" -> ParsePanic
      [] data_id = "SEEyeglassesStatus" -> ParsePanic
      [] data_id = "SEReflexReductionStateDEPRECATED" -> ParsePanic

(***************************************************************************)
(* Framing: parse_sub_packet, parse_packet_header, parse_packet_data,      *)
(* parse_packet                                                            *)
(***************************************************************************)
\* No all_consuming: what the decoder leaves of the payload is ignored.
all_consuming_lax(r) == r

all_consuming(r) == IF r.st = "Ok" /\ r.rest # <<>> THEN ParseErr ELSE r

parse_sub_packet(i) ==
    AndThen(parse_sub_packet_header(i), LAMBDA header :
        IF Len(header.rest) < header.val.length THEN ParseErr
        ELSE AndThen(all_consuming(parse_sub_packet_data(
                         header.val.id, Take(header.rest, header.val.length))),
                     LAMBDA sub_packet :
                         Ok(Drop(header.rest, header.val.length), sub_packet.val)))

PACKET_HEADER_SIZE == 4 + 2 + 2

SEPD == <<83, 69, 80, 68>>

\* A header check that looks at the magic only, not at the packet type.
parse_packet_header_notype(i) ==
    IF Len(i) >= 4 /\ Take(i, 4) = SEPD
    THEN Bind(parse_u16(Drop(i, 6)), LAMBDA length :
             IF length.st # "Ok" THEN ParseErr ELSE Ok(<<>>, [length |-> length.val]))
    ELSE ParseErr

parse_packet_header(i) ==
    IF Len(i) >= 4 /\ Take(i, 4) = SEPD /\ Len(i) >= 6 /\ i[5] = 0 /\ i[6] = 4
    THEN Bind(parse_u16(Drop(i, 6)), LAMBDA length :
             IF length.st # "Ok" THEN ParseErr ELSE Ok(<<>>, [length |-> length.val]))
    ELSE ParseErr

\* A many_till that stops at the first sub-packet that fails and keeps
\* what it has.
RECURSIVE many_till_partial(_, _)
many_till_partial(i, acc) ==
    IF i = <<>> THEN Ok(<<>>, acc)
    ELSE Bind(parse_sub_packet(i), LAMBDA r :
             IF r.st = "Ok" THEN many_till_partial(r.rest, Append(acc, r.val))
             ELSE IF r.st = "Panic" THEN r ELSE Ok(<<>>, acc))

RECURSIVE many_till_eof(_, _)
many_till_eof(i, acc) ==
    IF i = <<>> THEN Ok(<<>>, acc)
    ELSE AndThen(parse_sub_packet(i), LAMBDA r :
             IF Len(r.rest) = Len(i) THEN ParseErr
             ELSE many_till_eof(r.rest, Append(acc, r.val)))

\* A parse_packet_data without take(header.length): the sub-packets are
\* read to the end of the input.
parse_packet_data_notake(header, i) == many_till_eof(i, <<>>)

parse_packet_data(header, i) ==
    IF Len(i) < header.length THEN ParseErr
    ELSE AndThen(many_till_eof(Take(i, header.length), <<>>), LAMBDA r :
             Ok(Drop(i, header.length), r.val))

parse_packet(i) ==
    Bind(parse_packet_header(i), LAMBDA header :
        IF header.st # "Ok" THEN ParseErr
        ELSE parse_packet_data(header.val, Drop(i, PACKET_HEADER_SIZE)))

(***************************************************************************)
(* The state.  One client is modelled per behaviour, a TCPClient or a      *)
(* UDPClient, together with the peer that feeds its socket.                *)
(***************************************************************************)
VARIABLES
    kind,       \* "tcp" or "udp": which client this behaviour is about
    state,      \* TCPClientState / UDPClientState: Pending, Connected, Disconnected
    addr,       \* the addr of the Pending state, "None" in the other states
    buf,        \* TcpStreamReader.buf (its contents; buf.len() is Len(buf))
    pos,        \* TcpStreamReader.pos
    cap,        \* buf.capacity()
    ubuf,       \* UDPClientState::Connected.buf, up to its last non-zero-filled byte
    sock,       \* TCP: the bytes that have arrived and wait in the socket
    wire,       \* TCP: the bytes the peer has sent that have not arrived yet
    closed,     \* TCP: a read has found the connection closed by the peer
    dgrams,     \* UDP: the datagrams that have arrived and wait in the socket
    dwire,      \* UDP: the datagrams still on their way
    segs,       \* what the peer sends in this behaviour, segment by segment
    ret,        \* the last call on the client and what it returned
    pre,        \* the reader's input when the last call started
    delivered,  \* the packets next() has returned so far, in order
    polls,      \* how many next() calls found too few bytes or no datagram
    pin,        \* the input of a direct call of the parser
    pout        \* that call and its result

vars == <<kind, state, addr, buf, pos, cap, ubuf, sock, wire, closed, dgrams, dwire, segs,
          ret, pre, delivered, polls, pin, pout>>

(***************************************************************************)
(* TcpStreamReader.  A reader value is [buf, pos, cap].                    *)
(***************************************************************************)
TcpStreamReader_new == [buf |-> <<>>, pos |-> 0, cap |-> 0]

buffer(rd) == Drop(rd.buf, rd.pos)

\* Vec's amortized growth when `additional` more elements do not fit
\* (extend, resize): at least double, at least what is required, at least 8.
VecReserve(c, len, additional) ==
    IF additional > c - len THEN Max(8, Max(c * 2, len + additional)) ELSE c

\* A read_exact that takes one byte more off the socket than it was asked
\* for and drops it.
ReadExactOver(s, isClosed, wanted) ==
    LET got == IF Len(s) < wanted THEN Len(s) ELSE wanted
    IN  [bytes |-> Take(s, got),
         sock |-> Drop(s, got + 1),
         res |-> IF got = wanted THEN "Ok"
                 ELSE IF isClosed THEN "UnexpectedEof" ELSE "WouldBlock"]

\* What a read_exact of `wanted` bytes finds on the non-blocking socket `s`:
\* it takes the bytes that are there, and fails when they are too few, with
\* the io::ErrorKind of the operating system's answer.
ReadExact(s, isClosed, wanted) ==
    LET got == IF Len(s) < wanted THEN Len(s) ELSE wanted
    IN  [bytes |-> Take(s, got),
         sock |-> Drop(s, got),
         res |-> IF got = wanted THEN "Ok"
                 ELSE IF isClosed THEN "UnexpectedEof" ELSE "WouldBlock"]

\* A map_err that reports every I/O error as a failed read.
map_err_failed(e) == "ReadFailed"

\* The closure given to map_err after read_exact and after recv_from: the
\* error of the client for the io::ErrorKind e.
map_err(e) == IF e = "WouldBlock" THEN "WouldBlock" ELSE "ReadFailed"

\* A grow that keeps pos where it was when it moves the unread bytes to the
\* front of a new Vec.
grow_keep_pos(rd, s, isClosed, wanted) ==
    LET available == rd.cap - rd.pos
        realloc == available < wanted
        required == rd.pos + wanted
        new_cap == Max(required, rd.cap)
        unread == buffer(rd)
        buf1 == IF realloc THEN unread ELSE rd.buf
        cap1 == IF realloc THEN VecReserve(new_cap, 0, Len(unread)) ELSE rd.cap
        old_len == Len(buf1)
    IN  Bind(ReadExact(s, isClosed, wanted), LAMBDA rx :
            [rd |-> [buf |-> buf1 \o rx.bytes \o Zeros(wanted - Len(rx.bytes)),
                     pos |-> rd.pos,
                     cap |-> VecReserve(cap1, old_len, wanted)],
             sock |-> rx.sock,
             res |-> IF rx.res = "Ok" THEN "Ok" ELSE map_err(rx.res),
             os |-> IF rx.res = "Ok" THEN "None" ELSE rx.res])

\* A grow that never moves the unread bytes: it appends to the Vec it has.
grow_in_place(rd, s, isClosed, wanted) ==
    Bind(ReadExact(s, isClosed, wanted), LAMBDA rx :
        [rd |-> [buf |-> rd.buf \o rx.bytes \o Zeros(wanted - Len(rx.bytes)),
                 pos |-> rd.pos,
                 cap |-> VecReserve(rd.cap, Len(rd.buf), wanted)],
         sock |-> rx.sock,
         res |-> IF rx.res = "Ok" THEN "Ok" ELSE map_err(rx.res),
         os |-> IF rx.res = "Ok" THEN "None" ELSE rx.res])

grow(rd, s, isClosed, wanted) ==
    LET available == rd.cap - rd.pos
        realloc == available < wanted
        required == rd.pos + wanted
        new_cap == Max(required, rd.cap)
        unread == buffer(rd)
        buf1 == IF realloc THEN unread ELSE rd.buf
        cap1 == IF realloc THEN VecReserve(new_cap, 0, Len(unread)) ELSE rd.cap
        pos1 == IF realloc THEN 0 ELSE rd.pos
        old_len == Len(buf1)
    IN  Bind(ReadExact(s, isClosed, wanted), LAMBDA rx :
            [rd |-> [buf |-> buf1 \o rx.bytes \o Zeros(wanted - Len(rx.bytes)),
                     pos |-> pos1,
                     cap |-> VecReserve(cap1, old_len, wanted)],
             sock |-> rx.sock,
             res |-> IF rx.res = "Ok" THEN "Ok" ELSE map_err(rx.res),
             os |-> IF rx.res = "Ok" THEN "None" ELSE rx.res])

\* A reserve that does not look at what is buffered and always fetches
\* `additional` bytes.
reserve_always(rd, s, isClosed, additional) == grow(rd, s, isClosed, additional)

reserve(rd, s, isClosed, additional) ==
    LET current_length == Len(buffer(rd))
    IN  IF current_length < additional
        THEN grow(rd, s, isClosed, additional - current_length)
        ELSE [rd |-> rd, sock |-> s, res |-> "Ok", os |-> "None"]

\* peek(n): the reserve it makes; on success the slice returned is
\* Take(buffer(rd), n) of the reader it leaves.
peek(rd, s, isClosed, n) == reserve(rd, s, isClosed, n)

\* A consume without its range check.
consume_unchecked(rd, n) == FALSE

consume_panics(rd, n) == Len(buffer(rd)) < n

\* A consume that drops everything buffered instead of n bytes.
consume_all(rd, n) == [rd EXCEPT !.pos = Len(rd.buf)]

\* A consume that leaves pos where it is.
consume_none(rd, n) == rd

consume(rd, n) == [rd EXCEPT !.pos = @ + n]

\* A read that moves pos whether or not the bytes were there.
read_eager(rd, s, isClosed, n) ==
    Bind(reserve(rd, s, isClosed, n), LAMBDA r : [r EXCEPT !.rd.pos = @ + n])

\* read(n): on success the slice returned is the n bytes before the new pos.
read(rd, s, isClosed, n) ==
    Bind(reserve(rd, s, isClosed, n), LAMBDA r :
        IF r.res # "Ok" THEN r ELSE [r EXCEPT !.rd.pos = @ + n])

(***************************************************************************)
(* TCPClient::next on a connected client: the header search, then the      *)
(* body.  The outcome is the reader and socket it leaves and what the call *)
(* returns; skipped counts the consume(1) calls and hdr tells whether a    *)
(* header was accepted and consumed; os is the io::ErrorKind of the read    *)
(* that ended the call, "None" when no read failed.                        *)
(***************************************************************************)
Outcome(rd, s, k, packet, skipped, hdr) ==
    [rd |-> rd, sock |-> s, kind |-> k, packet |-> packet, skipped |-> skipped,
     hdr |-> hdr, os |-> "None"]

\* The `?` after a peek or read r that failed: the call ends with its error.
Failed(r, skipped, hdr) ==
    [Outcome(r.rd, r.sock, r.res, <<>>, skipped, hdr) EXCEPT !.os = r.os]

\* A body step that, when the body does not parse, puts pos back to the
\* start of the body.
tcp_body_rewind(rd, s, isClosed, skipped, packet_header) ==
    Bind(read(rd, s, isClosed, packet_header.length), LAMBDA r :
        IF r.res # "Ok" THEN Failed(r, skipped, TRUE)
        ELSE Bind(parse_packet_data(
                      packet_header,
                      SubSeq(r.rd.buf, r.rd.pos - packet_header.length + 1, r.rd.pos)),
                  LAMBDA p :
                      IF p.st = "Ok"
                      THEN Outcome(r.rd, r.sock, "Packet", p.val, skipped, TRUE)
                      ELSE IF p.st = "Panic"
                      THEN Outcome(r.rd, r.sock, "Panic", <<>>, skipped, TRUE)
                      ELSE Outcome([r.rd EXCEPT !.pos = @ - packet_header.length], r.sock,
                                   "InvalidPacket", <<>>, skipped, TRUE)))

tcp_body(rd, s, isClosed, skipped, packet_header) ==
    Bind(read(rd, s, isClosed, packet_header.length), LAMBDA r :
        IF r.res # "Ok" THEN Failed(r, skipped, TRUE)
        ELSE Bind(parse_packet_data(
                      packet_header,
                      SubSeq(r.rd.buf, r.rd.pos - packet_header.length + 1, r.rd.pos)),
                  LAMBDA p :
                      IF p.st = "Ok"
                      THEN Outcome(r.rd, r.sock, "Packet", p.val, skipped, TRUE)
                      ELSE IF p.st = "Panic"
                      THEN Outcome(r.rd, r.sock, "Panic", <<>>, skipped, TRUE)
                      ELSE Outcome(r.rd, r.sock, "InvalidPacket", <<>>, skipped, TRUE)))

\* A next() without the resync loop: a failed header check is reported.
tcp_seek_noresync(rd, s, isClosed, skipped) ==
    Bind(peek(rd, s, isClosed, PACKET_HEADER_SIZE), LAMBDA pk :
        IF pk.res # "Ok" THEN Failed(pk, skipped, FALSE)
        ELSE Bind(parse_packet_header(Take(buffer(pk.rd), PACKET_HEADER_SIZE)), LAMBDA h :
                 IF h.st = "Ok"
                 THEN tcp_body(consume(pk.rd, PACKET_HEADER_SIZE), pk.sock, isClosed,
                               skipped, h.val)
                 ELSE Outcome(consume(pk.rd, 1), pk.sock, "InvalidPacket", <<>>, skipped,
                              FALSE)))

\* One turn of the header search loop, from the reader and socket of o.  The
\* turn ends the call (WouldBlock, ReadFailed, a panic, or a header found and
\* the body handled) or consumes one byte and leaves the loop to go on
\* ("Seeking").
seek_once(o, isClosed) ==
    Bind(peek(o.rd, o.sock, isClosed, PACKET_HEADER_SIZE), LAMBDA pk :
        IF pk.res # "Ok" THEN Failed(pk, o.skipped, FALSE)
        ELSE Bind(parse_packet_header(Take(buffer(pk.rd), PACKET_HEADER_SIZE)), LAMBDA h :
                 IF h.st = "Ok"
                 THEN IF consume_panics(pk.rd, PACKET_HEADER_SIZE)
                      THEN Outcome(pk.rd, pk.sock, "Panic", <<>>, o.skipped, FALSE)
                      ELSE tcp_body(consume(pk.rd, PACKET_HEADER_SIZE), pk.sock, isClosed,
                                    o.skipped, h.val)
                 ELSE IF consume_panics(pk.rd, 1)
                      THEN Outcome(pk.rd, pk.sock, "Panic", <<>>, o.skipped, FALSE)
                      ELSE Outcome(consume(pk.rd, 1), pk.sock, "Seeking", <<>>,
                                   o.skipped + 1, FALSE)))

\* The first n turns of the loop, or fewer when a turn ends the call; the
\* turns are split in halves so that the evaluation stays shallow.
RECURSIVE seek_turns(_, _, _)
seek_turns(o, isClosed, n) ==
    IF o.kind # "Seeking" THEN o
    ELSE IF n <= 1 THEN seek_once(o, isClosed)
    ELSE seek_turns(seek_turns(o, isClosed, n \div 2), isClosed, n - (n \div 2))

\* The loop: every turn that does not end the call consumes a byte that was
\* buffered or waiting on the socket, so it ends within one turn more than
\* there are such bytes.
tcp_seek(rd, s, isClosed, skipped) ==
    seek_turns(Outcome(rd, s, "Seeking", <<>>, skipped, FALSE), isClosed,
               Len(buffer(rd)) + Len(s) + 1)

tcp_next(rd, s, isClosed) == tcp_seek(rd, s, isClosed, 0)

(***************************************************************************)
(* UDPClient::next on a connected client with datagram d received: the     *)
(* datagram overwrites the head of the reusable buffer and the first       *)
(* Len(d) bytes are parsed as one packet.                                  *)
(***************************************************************************)
udp_recv(b, d) == IF Len(d) >= Len(b) THEN d ELSE d \o Drop(b, Len(d))

\* A next() that parses the reusable buffer to its end, not the n bytes
\* received.
udp_next_stale(b, d) ==
    Bind(udp_recv(b, d), LAMBDA nb :
    Bind(parse_packet(nb), LAMBDA p :
        [ubuf |-> nb,
         kind |-> IF p.st = "Ok" THEN "Packet"
                  ELSE IF p.st = "Panic" THEN "Panic" ELSE "InvalidPacket",
         packet |-> IF p.st = "Ok" THEN p.val ELSE <<>>]))

udp_next(b, d) ==
    Bind(udp_recv(b, d), LAMBDA nb :
    Bind(parse_packet(Take(nb, Len(d))), LAMBDA p :
        [ubuf |-> nb,
         kind |-> IF p.st = "Ok" THEN "Packet"
                  ELSE IF p.st = "Panic" THEN "Panic" ELSE "InvalidPacket",
         packet |-> IF p.st = "Ok" THEN p.val ELSE <<>>]))

(***************************************************************************)
(* What the peer sends.  Packets are written in the wire format            *)
(*   "SEPD" | 0x0004 | bodyLength:u16 | body,                              *)
(*   sub-packet = fieldId:u16 | payloadLength:u16 | payload                *)
(* and the byte strings below are the ones of the parser's tests, plus a   *)
(* few malformed ones.                                                     *)
(***************************************************************************)
u16be(n) == <<n \div 256, n % 256>>

SubPacket(id, payload) == u16be(id) \o u16be(Len(payload)) \o payload

PacketOf(body) == SEPD \o <<0, 4>> \o u16be(Len(body)) \o body

PACKET_EMPTY == PacketOf(<<>>)

PACKET_FRAME_NUMBER == PacketOf(SubPacket(1, <<0, 0, 69, 155>>))

\* A valid header whose 4-byte body is a sub-packet header announcing 4
\* payload bytes that the body does not hold.
PACKET_BAD_BODY == PacketOf(<<0, 1, 0, 4>>)

\* A valid header whose body is an SEUserMarker sub-packet with presence
\* flag 2.
PACKET_BAD_FLAG == PacketOf(SubPacket(928, <<0, 2>>))

\* PACKET_FRAME_NUMBER without its last 4 bytes: the header declares 8 body
\* bytes and 4 follow.
PACKET_CUT == Take(PACKET_FRAME_NUMBER, 12)

\* PACKET_EMPTY with one more byte after the declared (empty) body.
PACKET_TRAILING == PACKET_EMPTY \o <<7>>

GARBAGE_ZERO == <<0>>

GARBAGE_SEP == <<255, 83, 69>>

GARBAGE_NONE == <<>>

Packets == {PACKET_EMPTY, PACKET_FRAME_NUMBER, PACKET_BAD_BODY}

Garbage == {GARBAGE_NONE, GARBAGE_ZERO, GARBAGE_SEP}

\* The most packets the peer sends in one behaviour.
MaxPackets == 2

\* next() is not called any more after this many calls of it came back
\* without data (polling an idle socket can go on without end).
MaxPolls == 2

\* The sizes of the chunks in which the peer's bytes arrive, besides all
\* that is left.  With the garbage of 0, 1 or 3 bytes in front, the chunk
\* boundaries fall inside the magic, inside the header and inside the body.
ChunkSizes == {5}

\* A scenario is what the peer sends: bytes that belong to no packet (the
\* tail of a packet cut by a mid-stream connect, line noise), possibly none,
\* then packets.  Over UDP every segment is one datagram.
Scenarios ==
    {<<g>> \o ps : g \in Garbage, ps \in UNION {[1..n -> Packets] : n \in 1..MaxPackets}}

\* What the peer sends over UDP, where a datagram need not be a whole
\* packet: a one-byte datagram, then datagrams that are a packet, a packet
\* cut short, or a packet with a byte after it.
Datagrams == {PACKET_EMPTY, PACKET_FRAME_NUMBER, PACKET_CUT, PACKET_TRAILING}

DatagramScenarios ==
    {<<GARBAGE_ZERO>> \o ds : ds \in UNION {[1..n -> Datagrams] : n \in 1..MaxPackets}}

\* The scenarios of one packet and no garbage, the packet that makes the
\* decoder panic among them.
SinglePackets == {<<GARBAGE_NONE, p>> : p \in Packets \cup {PACKET_BAD_FLAG}}

(***************************************************************************)
(* Calls and their results                                                 *)
(***************************************************************************)
Ret(op, k, packet, skipped, hdr, io) ==
    [op |-> op, kind |-> k, packet |-> packet, skipped |-> skipped, hdr |-> hdr,
     io |-> io, os |-> "None"]

\* The io::ErrorKinds a recv_from with no datagram waiting can answer with.
RecvErrors == {"WouldBlock", "ConnectionReset"}

Pre(st, unread, s) == [state |-> st, unread |-> unread, sock |-> s]

NoInput == [chunks |-> <<>>, length |-> -1, data |-> <<>>]

NoOutput == [op |-> "none", r |-> ParseErr]

\* TCPClient::new(hostname, port) and UDPClient::new(port): the address the
\* Pending state keeps for connect().
new_addr(k) == IF k = "tcp" THEN "hostname:port" ELSE "0.0.0.0:port"

InitWith(scenarios) ==
    /\ kind \in {"tcp", "udp"}
    /\ segs \in scenarios
    /\ state = "Pending"
    /\ addr = new_addr(kind)
    /\ buf = <<>>
    /\ pos = 0
    /\ cap = 0
    /\ ubuf = <<>>
    /\ sock = <<>>
    /\ wire = IF kind = "tcp" THEN Flatten(segs) ELSE <<>>
    /\ closed = FALSE
    /\ dgrams = <<>>
    /\ dwire = IF kind = "udp" THEN segs ELSE <<>>
    /\ ret = Ret("none", "None", <<>>, 0, FALSE, FALSE)
    /\ pre = Pre("Pending", <<>>, <<>>)
    /\ delivered = <<>>
    /\ polls = 0
    /\ pin = NoInput
    /\ pout = NoOutput

Init == InitWith(Scenarios) \/ (InitWith(DatagramScenarios) /\ kind = "udp")

\* A panic unwinds the caller: nothing is done with the client afterwards.
Running == ret.kind # "Panic"

\* The peer's bytes reach the socket in chunks.
Arrive ==
    /\ Running
    /\ kind = "tcp"
    /\ state = "Connected"
    /\ \E n \in {m \in ChunkSizes \cup {Len(wire)} : m >= 1 /\ m <= Len(wire)} :
          /\ sock' = sock \o Take(wire, n)
          /\ wire' = Drop(wire, n)
    /\ UNCHANGED <<kind, addr, state, buf, pos, cap, ubuf, closed, dgrams, dwire, segs, ret,
                   pre, delivered, polls, pin, pout>>

\* One datagram reaches the UDP socket.
ArriveDatagram ==
    /\ Running
    /\ kind = "udp"
    /\ state = "Connected"
    /\ dwire # <<>>
    /\ dgrams' = Append(dgrams, Head(dwire))
    /\ dwire' = Tail(dwire)
    /\ UNCHANGED <<kind, addr, state, buf, pos, cap, ubuf, sock, wire, closed, segs, ret, pre,
                   delivered, polls, pin, pout>>

\* A connect() that does not look at the state.
ConnectAnyState ==
    /\ Running
    /\ pre' = Pre(state, <<>>, <<>>)
    /\ state' = "Connected"
    /\ addr' = "None"
    /\ ret' = Ret("connect", "Ok", <<>>, 0, FALSE, TRUE)
    /\ buf' = TcpStreamReader_new.buf
    /\ pos' = TcpStreamReader_new.pos
    /\ cap' = TcpStreamReader_new.cap
    /\ ubuf' = <<>>
    /\ UNCHANGED <<kind, sock, wire, closed, dgrams, dwire, segs, delivered, polls, pin, pout>>

\* A connect() that gives up for good when the socket cannot be opened or
\* set non-blocking: the client ends Disconnected, without its address.
ConnectOnce ==
    /\ Running
    /\ pre' = Pre(state, <<>>, <<>>)
    /\ IF state = "Pending"
       THEN \E outcome \in {"ok", "connect_failed", "set_nonblocking_failed"} :
               /\ state' = IF outcome = "ok" THEN "Connected" ELSE "Disconnected"
               /\ addr' = "None"
               /\ ret' = Ret("connect", IF outcome = "ok" THEN "Ok" ELSE "ConnectFailed",
                             <<>>, 0, FALSE, TRUE)
               /\ buf' = TcpStreamReader_new.buf
               /\ pos' = TcpStreamReader_new.pos
               /\ cap' = TcpStreamReader_new.cap
               /\ ubuf' = <<>>
       ELSE /\ ret' = Ret("connect", "Panic", <<>>, 0, FALSE, FALSE)
            /\ UNCHANGED <<state, addr, buf, pos, cap, ubuf>>
    /\ UNCHANGED <<kind, sock, wire, closed, dgrams, dwire, segs, delivered, polls, pin, pout>>

\* connect(): from Pending the socket is opened (TCP) or bound (UDP) and set
\* non-blocking; either step may fail with an OS error.  From any other
\* state the call panics before anything else.
Connect ==
    /\ Running
    /\ pre' = Pre(state, <<>>, <<>>)
    /\ IF state = "Pending"
       THEN \E outcome \in {"ok", "connect_failed", "set_nonblocking_failed"} :
               /\ state' = IF outcome = "ok" THEN "Connected" ELSE state
               /\ addr' = IF outcome = "ok" THEN "None" ELSE addr
               /\ ret' = Ret("connect", IF outcome = "ok" THEN "Ok" ELSE "ConnectFailed",
                             <<>>, 0, FALSE, TRUE)
               /\ buf' = TcpStreamReader_new.buf
               /\ pos' = TcpStreamReader_new.pos
               /\ cap' = TcpStreamReader_new.cap
               /\ ubuf' = <<>>
       ELSE /\ ret' = Ret("connect", "Panic", <<>>, 0, FALSE, FALSE)
            /\ UNCHANGED <<state, addr, buf, pos, cap, ubuf>>
    /\ UNCHANGED <<kind, sock, wire, closed, dgrams, dwire, segs, delivered, polls, pin, pout>>

\* A disconnect() that leaves the client ready to connect again.
DisconnectToPending ==
    /\ Running
    /\ state = "Connected"
    /\ pre' = Pre(state, <<>>, <<>>)
    /\ state' = "Pending"
    /\ ret' = Ret("disconnect", "Ok", <<>>, 0, FALSE, TRUE)
    /\ buf' = <<>>
    /\ pos' = 0
    /\ cap' = 0
    /\ ubuf' = <<>>
    /\ sock' = <<>>
    /\ wire' = <<>>
    /\ dgrams' = <<>>
    /\ dwire' = <<>>
    /\ UNCHANGED <<kind, addr, closed, segs, delivered, polls, pin, pout>>

\* A disconnect() that stays Connected when the shutdown reports an error.
DisconnectChecked ==
    /\ Running
    /\ pre' = Pre(state, <<>>, <<>>)
    /\ IF state = "Connected"
       THEN \E shutdown_ok \in (IF kind = "tcp" THEN BOOLEAN ELSE {TRUE}) :
               /\ state' = IF shutdown_ok THEN "Disconnected" ELSE state
               /\ ret' = Ret("disconnect", IF shutdown_ok THEN "Ok" ELSE "DisconnectFailed",
                             <<>>, 0, FALSE, TRUE)
               /\ buf' = IF shutdown_ok THEN <<>> ELSE buf
               /\ pos' = IF shutdown_ok THEN 0 ELSE pos
               /\ cap' = IF shutdown_ok THEN 0 ELSE cap
               /\ ubuf' = IF shutdown_ok THEN <<>> ELSE ubuf
               /\ sock' = IF shutdown_ok THEN <<>> ELSE sock
               /\ wire' = IF shutdown_ok THEN <<>> ELSE wire
               /\ dgrams' = IF shutdown_ok THEN <<>> ELSE dgrams
               /\ dwire' = IF shutdown_ok THEN <<>> ELSE dwire
       ELSE /\ ret' = Ret("disconnect", "Panic", <<>>, 0, FALSE, FALSE)
            /\ UNCHANGED <<state, buf, pos, cap, ubuf, sock, wire, dgrams, dwire>>
    /\ UNCHANGED <<kind, addr, closed, segs, delivered, polls, pin, pout>>

\* disconnect(): from Connected the state becomes Disconnected, which drops
\* the reader (TCP) or the socket and its buffer (UDP) and with them the
\* connection; the TCP shutdown may report an OS error, which is returned.
Disconnect ==
    /\ Running
    /\ pre' = Pre(state, <<>>, <<>>)
    /\ IF state = "Connected"
       THEN \E shutdown_ok \in (IF kind = "tcp" THEN BOOLEAN ELSE {TRUE}) :
               /\ state' = "Disconnected"
               /\ ret' = Ret("disconnect", IF shutdown_ok THEN "Ok" ELSE "DisconnectFailed",
                             <<>>, 0, FALSE, TRUE)
               /\ buf' = <<>>
               /\ pos' = 0
               /\ cap' = 0
               /\ ubuf' = <<>>
               /\ sock' = <<>>
               /\ wire' = <<>>
               /\ dgrams' = <<>>
               /\ dwire' = <<>>
       ELSE /\ ret' = Ret("disconnect", "Panic", <<>>, 0, FALSE, FALSE)
            /\ UNCHANGED <<state, buf, pos, cap, ubuf, sock, wire, dgrams, dwire>>
    /\ UNCHANGED <<kind, addr, closed, segs, delivered, polls, pin, pout>>

TcpNext ==
    /\ Running
    /\ kind = "tcp"
    /\ polls < MaxPolls
    /\ pre' = Pre(state, buffer([buf |-> buf, pos |-> pos]), sock)
    /\ IF state = "Connected"
       THEN \E eof \in (IF closed THEN {TRUE} ELSE IF wire = <<>> THEN BOOLEAN ELSE {FALSE}) :
            \E o \in {tcp_next([buf |-> buf, pos |-> pos, cap |-> cap], sock, eof)} :
                /\ buf' = o.rd.buf
                /\ pos' = o.rd.pos
                /\ cap' = o.rd.cap
                /\ sock' = o.sock
                /\ ret' = [Ret("next", o.kind, o.packet, o.skipped, o.hdr, TRUE)
                             EXCEPT !.os = o.os]
                /\ delivered' = IF o.kind = "Packet" THEN Append(delivered, o.packet)
                                ELSE delivered
                /\ polls' = IF o.kind \in {"WouldBlock", "ReadFailed"} THEN polls + 1
                            ELSE polls
                /\ closed' = (closed \/ o.kind = "ReadFailed")
       ELSE /\ ret' = Ret("next", "Panic", <<>>, 0, FALSE, FALSE)
            /\ UNCHANGED <<buf, pos, cap, sock, delivered, polls, closed>>
    /\ UNCHANGED <<kind, addr, state, ubuf, wire, dgrams, dwire, segs, pin, pout>>

UdpNext ==
    /\ Running
    /\ kind = "udp"
    /\ polls < MaxPolls
    /\ pre' = Pre(state, <<>>, IF dgrams = <<>> THEN <<>> ELSE Head(dgrams))
    /\ IF state = "Connected"
       THEN IF dgrams = <<>>
            THEN /\ \E e \in RecvErrors :
                        ret' = [Ret("next", map_err(e), <<>>, 0, FALSE, TRUE)
                                EXCEPT !.os = e]
                 /\ polls' = polls + 1
                 /\ UNCHANGED <<ubuf, dgrams, delivered>>
            ELSE \E o \in {udp_next(ubuf, Head(dgrams))} :
                     /\ ubuf' = o.ubuf
                     /\ dgrams' = Tail(dgrams)
                     /\ ret' = Ret("next", o.kind, o.packet, 0, FALSE, TRUE)
                     /\ delivered' = IF o.kind = "Packet" THEN Append(delivered, o.packet)
                                     ELSE delivered
                     /\ UNCHANGED polls
       ELSE /\ ret' = Ret("next", "Panic", <<>>, 0, FALSE, FALSE)
            /\ UNCHANGED <<ubuf, dgrams, delivered, polls>>
    /\ UNCHANGED <<kind, addr, state, buf, pos, cap, sock, wire, closed, dwire, segs, pin, pout>>

\* A caller that keeps to the lifecycle: connect() once, then next() as
\* often as it likes, then disconnect().
CallConnect == state = "Pending" /\ Connect

CallDisconnect == state = "Connected" /\ Disconnect

CallTcpNext == state = "Connected" /\ TcpNext

CallUdpNext == state = "Connected" /\ UdpNext

Next ==
    \/ CallConnect
    \/ CallDisconnect
    \/ CallTcpNext
    \/ CallUdpNext
    \/ Arrive
    \/ ArriveDatagram

Spec == Init /\ [][Next]_vars

\* A caller that makes any call at any time, against a peer that sends one
\* packet.
InitMisuse == InitWith(SinglePackets)

NextMisuse ==
    \/ Connect
    \/ Disconnect
    \/ TcpNext
    \/ UdpNext
    \/ Arrive
    \/ ArriveDatagram

SpecMisuse == InitMisuse /\ [][NextMisuse]_vars

(***************************************************************************)
(* The parser called directly.  An input is put together from chunks: the  *)
(* sub-packets of the parser's tests and of the wire format, and malformed *)
(* ones.  Each well-formed chunk comes with the field it stands for,       *)
(* written down by hand as in the tests.                                   *)
(***************************************************************************)
ChunkBytes(c) ==
    CASE c = "frame" -> SubPacket(1, <<0, 0, 69, 155>>)
      [] c = "time" -> SubPacket(3, <<0, 0, 4, 18, 222, 0, 1, 0>>)
      [] c = "key" -> SubPacket(86, <<0, 2, 65, 66>>)
      [] c = "nomark" -> SubPacket(928, <<0, 0>>)
      [] c = "short" -> <<0, 1, 0, 4, 0, 0>>
      [] c = "under" -> SubPacket(1, <<0, 0, 69, 155, 7>>)
      [] c = "over" -> SubPacket(1, <<0, 69, 155>>)
      [] c = "keyunder" -> SubPacket(86, <<0, 1, 65, 66>>)
      [] c = "keyover" -> SubPacket(86, <<0, 3, 65, 66>>)
      [] c = "badutf8" -> SubPacket(86, <<0, 1, 255>>)
      [] c = "unknown" -> SubPacket(0, <<>>)
      [] c = "reserved" -> SubPacket(192, <<>>)
      [] c = "badflag" -> SubPacket(928, <<0, 2>>)

ChunkField(c) ==
    CASE c = "frame" -> <<"SEFrameNumber", <<0, 17819>>>>
      [] c = "time" -> <<"SETimeStamp", <<0, 1042, 56832, 256>>>>
      [] c = "key" -> <<"SEKeyboardState", <<65, 66>>>>
      [] c = "nomark" -> <<"SEUserMarker", <<"None">>>>

GoodChunks == {"frame", "time", "key", "nomark"}

\* The decoder stops before the declared payload length, or needs more.
MiscountChunks == {"under", "over", "keyunder", "keyover"}

\* The decoder panics.
PanicChunks == {"reserved", "badflag"}

Chunks == GoodChunks \cup MiscountChunks \cup PanicChunks \cup {"short", "badutf8", "unknown"}

\* The most chunks in one input.
MaxSubs == 2

\* The declared body length, relative to the bytes the chunks make up.
Deltas == {-1, 0, 1}

\* Bytes that follow the chunks.
Trails == {<<>>, <<0>>}

ChunkSeqs == UNION {[1..n -> Chunks] : n \in 0..MaxSubs}

BodyOf(cs) == Flatten([k \in 1..Len(cs) |-> ChunkBytes(cs[k])])

FieldsOf(cs) == [k \in 1..Len(cs) |-> ChunkField(cs[k])]

ParseInputs ==
    {[chunks |-> cs, length |-> Len(BodyOf(cs)) + d, data |-> BodyOf(cs) \o t] :
        cs \in ChunkSeqs, d \in Deltas, t \in Trails}

PacketHeaderOf(length) == SEPD \o <<0, 4>> \o u16be(length)

\* parse_packet_data(PacketHeader { length }, data)
ParsePacketData ==
    /\ pin # NoInput
    /\ pout = NoOutput
    /\ pout' = [op |-> "parse_packet_data",
                r |-> parse_packet_data([length |-> pin.length], pin.data)]
    /\ UNCHANGED <<kind, addr, state, buf, pos, cap, ubuf, sock, wire, closed, dgrams, dwire,
                   segs, ret, pre, delivered, polls, pin>>

\* parse_packet(header bytes followed by data)
ParsePacket ==
    /\ pin # NoInput
    /\ pout = NoOutput
    /\ pout' = [op |-> "parse_packet",
                r |-> parse_packet(PacketHeaderOf(pin.length) \o pin.data)]
    /\ UNCHANGED <<kind, addr, state, buf, pos, cap, ubuf, sock, wire, closed, dgrams, dwire,
                   segs, ret, pre, delivered, polls, pin>>

\* parse_sub_packet(data)
ParseSubPacket ==
    /\ pin # NoInput
    /\ pout = NoOutput
    /\ pout' = [op |-> "parse_sub_packet", r |-> parse_sub_packet(pin.data)]
    /\ UNCHANGED <<kind, addr, state, buf, pos, cap, ubuf, sock, wire, closed, dgrams, dwire,
                   segs, ret, pre, delivered, polls, pin>>

InitParse ==
    /\ kind = "tcp"
    /\ segs = <<GARBAGE_NONE, PACKET_EMPTY>>
    /\ state = "Pending"
    /\ addr = new_addr(kind)
    /\ buf = <<>>
    /\ pos = 0
    /\ cap = 0
    /\ ubuf = <<>>
    /\ sock = <<>>
    /\ wire = <<>>
    /\ closed = FALSE
    /\ dgrams = <<>>
    /\ dwire = <<>>
    /\ ret = Ret("none", "None", <<>>, 0, FALSE, FALSE)
    /\ pre = Pre("Pending", <<>>, <<>>)
    /\ delivered = <<>>
    /\ polls = 0
    /\ pin \in {i \in ParseInputs : i.length >= 0}
    /\ pout = NoOutput

NextParse == ParsePacketData \/ ParsePacket \/ ParseSubPacket

SpecParse == InitParse /\ [][NextParse]_vars

(***************************************************************************)
(* The wire format written the other way round, from fields to bytes       *)
(* (the peer's side of the protocol), for the fields the chunks can yield. *)
(***************************************************************************)
RECURSIVE LimbBytes(_)
LimbBytes(ls) == IF ls = <<>> THEN <<>> ELSE u16be(Head(ls)) \o LimbBytes(Tail(ls))

S32Bytes(v) == u16be(IF v[1] < 0 THEN v[1] + 65536 ELSE v[1]) \o u16be(v[2])

UserMarkerBytes(v) ==
    IF v[1] = "None" THEN <<0, 0>>
    ELSE <<0, 1>> \o S32Bytes(v[2][1]) \o LimbBytes(v[2][2]) \o LimbBytes(v[2][3])
         \o <<v[2][4]>> \o LimbBytes(v[2][5])

EncodeField(f) ==
    CASE f[1] = "SEFrameNumber" -> SubPacket(1, LimbBytes(f[2]))
      [] f[1] = "SETimeStamp" -> SubPacket(3, LimbBytes(f[2]))
      [] f[1] = "SEFrameRate" -> SubPacket(5, LimbBytes(f[2]))
      [] f[1] = "SEKeyboardState" -> SubPacket(86, u16be(Len(f[2])) \o f[2])
      [] f[1] = "SEASCIIKeyboardState" -> SubPacket(164, u16be(f[2]))
      [] f[1] = "SEUserMarker" -> SubPacket(928, UserMarkerBytes(f[2]))
      [] f[1] = "SELeftEyelidState" -> SubPacket(912, <<f[2]>>)
      [] OTHER -> <<-1>>

EncodeFields(fs) == Flatten([k \in 1..Len(fs) |-> EncodeField(fs[k])])

(***************************************************************************)
(* Claims about the parser called directly (SpecParse)                     *)
(***************************************************************************)
AllGood(cs) == \A k \in 1..Len(cs) : cs[k] \in GoodChunks

\* C7: a packet whose header declares body length L and whose body is
\* well-formed sub-packets that add up to exactly L parses to exactly their
\* fields, in wire order, one per sub-packet, duplicates kept (none for
\* L = 0), and exactly the 8 + L bytes of the packet are consumed: what is
\* left of the input is what follows the body.
C7_ExactFields ==
    (/\ pout.op = "parse_packet"
     /\ AllGood(pin.chunks)
     /\ pin.length = Len(BodyOf(pin.chunks)))
    => /\ pout.r.st = "Ok"
       /\ Len(pout.r.val) = Len(pin.chunks)
       /\ \A k \in 1..Len(pin.chunks) : pout.r.val[k] = ChunkField(pin.chunks[k])
       /\ pout.r.rest = Drop(pin.data, pin.length)

C7_Witness ==
    /\ pout.op = "parse_packet"
    /\ pin.chunks = <<"frame", "frame">>
    /\ pin.length = Len(BodyOf(pin.chunks))
    /\ pin.data # BodyOf(pin.chunks)
    /\ pout.r.st = "Ok"
    /\ Len(pout.r.val) = 2

\* C8: parse_packet_data never returns a partial Packet.  Whenever it
\* returns fields, at least header.length bytes were supplied and the
\* fields, written back in the wire format, are exactly the first
\* header.length bytes; with fewer bytes than header.length it returns no
\* fields.
C8_AllOrNothing ==
    pout.op = "parse_packet_data"
    => /\ pout.r.st = "Ok"
          => /\ pin.length <= Len(pin.data)
             /\ EncodeFields(pout.r.val) = Take(pin.data, pin.length)
       /\ Len(pin.data) < pin.length => pout.r.st = "Err"

C8_Witness ==
    /\ pout.op = "parse_packet_data"
    /\ pin.chunks = <<"frame", "under">>
    /\ pin.length = Len(BodyOf(pin.chunks))
    /\ pout.r.st = "Err"

DeclaredLength(data) == data[3] * 256 + data[4]

FirstBad(cs, k) == cs[k] \in MiscountChunks /\ \A j \in 1..(k - 1) : cs[j] \in GoodChunks

\* C9: a sub-packet that declares payload length N fails when fewer than N
\* payload bytes remain, and when its decoder stops before N bytes or needs
\* more than N; a packet body holding such a sub-packet after well-formed
\* ones fails as a whole.
C9_SubPacketLength ==
    /\ (/\ pout.op = "parse_sub_packet"
        /\ Len(pin.data) >= 4
        /\ Len(pin.data) - 4 < DeclaredLength(pin.data))
       => pout.r.st = "Err"
    /\ (/\ pout.op = "parse_sub_packet"
        /\ Len(pin.chunks) >= 1
        /\ pin.chunks[1] \in MiscountChunks)
       => pout.r.st = "Err"
    /\ (/\ pout.op \in {"parse_packet_data", "parse_packet"}
        /\ \E k \in 1..Len(pin.chunks) : FirstBad(pin.chunks, k))
       => pout.r.st = "Err"

C9_Witness ==
    /\ pout.op = "parse_sub_packet"
    /\ pin.chunks = <<"keyunder">>
    /\ pin.data = ChunkBytes("keyunder")
    /\ pout.r.st = "Err"

(***************************************************************************)
(* Claims about the clients (Spec, SpecMisuse)                             *)
(***************************************************************************)
ValidPackets == {PACKET_EMPTY, PACKET_FRAME_NUMBER}

\* The fields of a valid packet, read off the bytes by hand.
Decoded(p) == IF p = PACKET_EMPTY THEN <<>> ELSE <<<<"SEFrameNumber", <<0, 17819>>>>>>

Unread == buffer([buf |-> buf, pos |-> pos])

TcpNextReturned == ret.op = "next" /\ kind = "tcp" /\ pre.state = "Connected"

C2_WouldBlockIdempotent ==
    (TcpNextReturned /\ pre.sock = <<>> /\ ~closed)
    => /\ ret.kind = "WouldBlock"
       /\ Unread = pre.unread

Expected == [k \in 1..(Len(segs) - 1) |-> Decoded(segs[k + 1])]

AllValid == segs[1] = GARBAGE_NONE /\ \A k \in 2..Len(segs) : segs[k] \in ValidPackets

\* C3: on a TCP stream of valid packets arriving in chunks, the packets
\* returned so far are always the first ones sent, unaltered and in order,
\* and once every byte has arrived and next() has answered WouldBlock on
\* the drained socket, all of them have been returned.
C3_NoPacketLost ==
    (kind = "tcp" /\ AllValid /\ state = "Connected" /\ ~closed)
    => /\ Len(delivered) <= Len(Expected)
       /\ \A k \in 1..Len(delivered) : delivered[k] = Expected[k]
       /\ (wire = <<>> /\ sock = <<>> /\ ret.op = "next" /\ ret.kind = "WouldBlock")
          => Len(delivered) = Len(Expected)

CallStep == <<ret, pre, polls>>' # <<ret, pre, polls>>

\* C4: a next() on a client that is still Pending, and a connect() on a
\* client that is not Pending any more, panics without any socket
\* operation, and leaves the lifecycle state, the reader, the socket and
\* its data as they were.
C4_MisuseRejected ==
    [][(/\ CallStep
        /\ \/ ret'.op = "next" /\ state = "Pending"
           \/ ret'.op = "connect" /\ state # "Pending")
       => /\ ret'.kind = "Panic"
          /\ ~ret'.io
          /\ UNCHANGED <<state, buf, pos, cap, ubuf, sock, wire, dgrams, dwire, closed,
                         delivered>>]_vars

C4_Witness ==
    /\ ret.op = "connect"
    /\ ret.kind = "Panic"
    /\ ~ret.io
    /\ state = "Connected"
    /\ sock # <<>> \/ dgrams # <<>>

\* C5: the lifecycle state changes only from Pending to Connected, by
\* connect(), and from Connected to Disconnected, by disconnect(); next()
\* never changes it; a call gets past the state check exactly when it is
\* connect() in Pending or next() or disconnect() in Connected.
C5_Lifecycle ==
    [][/\ state' # state
          => \/ state = "Pending" /\ state' = "Connected" /\ ret'.op = "connect"
             \/ state = "Connected" /\ state' = "Disconnected" /\ ret'.op = "disconnect"
       /\ CallStep
          => /\ ret'.op = "next" => state' = state
             /\ ret'.io <=> \/ ret'.op = "connect" /\ state = "Pending"
                            \/ ret'.op \in {"next", "disconnect"} /\ state = "Connected"
             /\ ~ret'.io => ret'.kind = "Panic"]_vars

C5_Witness ==
    /\ state = "Disconnected"
    /\ ret.op \in {"next", "connect", "disconnect"}
    /\ ret.kind = "Panic"
    /\ pre.state = "Disconnected"

\* C6: whatever bytes the network delivers, a next() on a Connected client
\* returns Packet, WouldBlock, ReadFailed or InvalidPacket, and does not
\* panic.
C6_NoPanicOnInput ==
    (ret.op = "next" /\ pre.state = "Connected")
    => ret.kind \in {"Packet", "WouldBlock", "ReadFailed", "InvalidPacket"}

\* C10: on a TCP client next() returns InvalidPacket only after it accepted
\* a header, which stands in the stream right after the bytes it skipped;
\* and when k garbage bytes are followed by a packet with a valid header and
\* a body that does not parse, next() skips the k bytes, takes the header
\* and the body off the socket and returns InvalidPacket, without looking
\* for the next packet in that call.
C10_InvalidPacketAfterHeader ==
    /\ (TcpNextReturned /\ ret.kind = "InvalidPacket")
       => /\ ret.hdr
          /\ Take(Drop(pre.unread \o pre.sock, ret.skipped), 6) = SEPD \o <<0, 4>>
    /\ \A g \in Garbage :
          (TcpNextReturned /\ pre.unread = <<>> /\ IsPrefix(g \o PACKET_BAD_BODY, pre.sock))
          => /\ ret.kind = "InvalidPacket"
             /\ ret.skipped = Len(g)
             /\ Unread = <<>>
             /\ IsPrefix(Drop(pre.sock, Len(g) + Len(PACKET_BAD_BODY)), sock)

C10_Witness ==
    /\ TcpNextReturned
    /\ pre.unread = <<>>
    /\ IsPrefix(GARBAGE_SEP \o PACKET_BAD_BODY \o PACKET_FRAME_NUMBER, pre.sock)
    /\ ret.kind = "InvalidPacket"
    /\ ret.skipped = 3
    /\ delivered = <<>>

IsValidPacket(p) == p \in ValidPackets

\* The valid packets the peer sent, decoded by hand, in the order sent.
SentValid ==
    LET ps == SelectSeq(Tail(segs), IsValidPacket)
    IN  [k \in 1..Len(ps) |-> Decoded(ps[k])]

\* All the peer's bytes have arrived and been taken off the socket, and the
\* last next() found nothing more to read.
Drained == wire = <<>> /\ sock = <<>> /\ ret.op = "next" /\ ret.kind = "WouldBlock"

\* C11: when the TCP stream starts with bytes that belong to no packet (the
\* reader connected mid-stream) or holds a packet with a corrupted body, the
\* packets next() returns are always the first valid packets sent, in
\* order, and once every byte has arrived and next() has answered WouldBlock
\* on the drained socket every valid packet sent has been returned.
C11_SelfHealing ==
    (kind = "tcp" /\ ~AllValid /\ state = "Connected" /\ ~closed)
    => /\ Len(delivered) <= Len(SentValid)
       /\ \A k \in 1..Len(delivered) : delivered[k] = SentValid[k]
       /\ Drained => Len(delivered) = Len(SentValid)

(***************************************************************************)
(* The decoders called directly: parse_packet_header, the optional types   *)
(* and parse_variant, each applied to byte strings built around the byte   *)
(* strings of the parser's tests.                                          *)
(***************************************************************************)
\* test_parse_world_intersection: world point (123.456, 1.0, -0.1), object
\* point (5656.0, 10.3, -2.0), object name "AbC!?~".
WORLD_INTERSECTION_BODY ==
    <<64, 94, 221, 47, 26, 159, 190, 119,   63, 240, 0, 0, 0, 0, 0, 0,
      191, 185, 153, 153, 153, 153, 153, 154,   64, 182, 24, 0, 0, 0, 0, 0,
      64, 36, 153, 153, 153, 153, 153, 154,   192, 0, 0, 0, 0, 0, 0, 0,
      0, 6,   65, 98, 67, 33, 63, 126>>

\* The value those bytes stand for, written down by hand (f64 bit patterns
\* as four 16-bit limbs).
WORLD_INTERSECTION_VALUE ==
    << <<<<16478, 56623, 6815, 48759>>, <<16368, 0, 0, 0>>,
         <<49081, 39321, 39321, 39322>>>>,
       <<<<16566, 6144, 0, 0>>, <<16420, 39321, 39321, 39322>>, <<49152, 0, 0, 0>>>>,
       <<65, 98, 67, 33, 63, 126>> >>

\* A user marker: error -2, time stamp 1, camera clock 2, camera 3, data 4.
USER_MARKER_BODY ==
    <<255, 255, 255, 254,   0, 0, 0, 0, 0, 0, 0, 1,   0, 0, 0, 0, 0, 0, 0, 2,   3,
      0, 0, 0, 0, 0, 0, 0, 4>>

USER_MARKER_VALUE == <<<<-1, 65534>>, <<0, 0, 0, 1>>, <<0, 0, 0, 2>>, 3, <<0, 0, 0, 4>>>>

\* Presence flags: absent, present, and values that are neither.
Flags == {0, 1, 2, 256, 65535}

OptionalBodies ==
    {<<>>, WORLD_INTERSECTION_BODY, USER_MARKER_BODY,
     Take(WORLD_INTERSECTION_BODY, Len(WORLD_INTERSECTION_BODY) - 1),
     Take(USER_MARKER_BODY, Len(USER_MARKER_BODY) - 1)}

OptionalInputs ==
    {u16be(f) \o b \o t : f \in Flags, b \in OptionalBodies, t \in Trails} \cup {<<>>, <<0>>}

\* Body lengths a header can declare.
HeaderLengths == {0, 8, 255, 256, 65535}

\* Headers: valid ones, alone and followed by a body; valid ones with one of
\* the first six bytes changed; and every proper prefix of a valid one.
HeaderInputs ==
    {PacketHeaderOf(l) : l \in HeaderLengths}
    \cup {PACKET_FRAME_NUMBER}
    \cup {[PacketHeaderOf(l) EXCEPT ![k] = v] :
             l \in {0, 8}, k \in 1..6, v \in {0, 3, 5, 68, 102, 255}}
    \cup {Take(PacketHeaderOf(l), n) : l \in {0, 8}, n \in 0..(PACKET_HEADER_SIZE - 1)}

DecodeInput(i) == [chunks |-> <<>>, length |-> 0, data |-> i]

\* parse_packet_header(data)
ParsePacketHeader ==
    /\ pin # NoInput
    /\ pout = NoOutput
    /\ pout' = [op |-> "parse_packet_header", r |-> parse_packet_header(pin.data)]
    /\ UNCHANGED <<kind, addr, state, buf, pos, cap, ubuf, sock, wire, closed, dgrams, dwire,
                   segs, ret, pre, delivered, polls, pin>>

\* parse_world_intersection(data)
ParseWorldIntersection ==
    /\ pin # NoInput
    /\ pout = NoOutput
    /\ pout' = [op |-> "parse_world_intersection", r |-> parse_world_intersection(pin.data)]
    /\ UNCHANGED <<kind, addr, state, buf, pos, cap, ubuf, sock, wire, closed, dgrams, dwire,
                   segs, ret, pre, delivered, polls, pin>>

\* parse_user_marker(data)
ParseUserMarker ==
    /\ pin # NoInput
    /\ pout = NoOutput
    /\ pout' = [op |-> "parse_user_marker", r |-> parse_user_marker(pin.data)]
    /\ UNCHANGED <<kind, addr, state, buf, pos, cap, ubuf, sock, wire, closed, dgrams, dwire,
                   segs, ret, pre, delivered, polls, pin>>

\* Type tags: the 22 of SETypeId, the first two past them, and large ones.
Tags == 0..23 \cup {255, 256, 65535}

ImplementedTags == (0..21) \ {15, 16, 18, 19}

\* A whole value for every tag parse_variant has a decoder for (the vector
\* and the struct are the ones of the parser's tests: one U16 1337, keyed
\* "AbC" in the struct); eight bytes for the other tags.
ValidValue(t) ==
    CASE t = 0 -> <<5>>
      [] t = 1 -> <<5, 57>>
      [] t \in {2, 3, 17} -> <<255, 255, 255, 254>>
      [] t \in {4, 5} -> <<64, 94, 221, 47, 26, 159, 190, 119>>
      [] t \in {6, 7} -> Take(WORLD_INTERSECTION_BODY, 16)
      [] t \in {8, 9} -> Take(WORLD_INTERSECTION_BODY, 24)
      [] t = 10 -> <<0, 3, 65, 98, 67>>
      [] t = 11 -> <<0, 1, 0, 1, 5, 57>>
      [] t = 12 -> <<0, 1, 0, 3, 65, 98, 67, 0, 1, 5, 57>>
      [] t \in {13, 14} -> <<0, 1>> \o WORLD_INTERSECTION_BODY
      [] t = 20 -> Take(WORLD_INTERSECTION_BODY, 32)
      [] t = 21 -> <<0, 1>> \o USER_MARKER_BODY
      [] OTHER -> <<0, 0, 0, 0, 0, 0, 0, 0>>

\* A variant nested d deep: d vectors (or structs with the key "k") of one
\* item each, one inside the other, around a U8.
Repeated(d, level, inner) ==
    [k \in 1..(d * Len(level) + Len(inner)) |->
        IF k > d * Len(level) THEN inner[k - d * Len(level)]
        ELSE level[((k - 1) % Len(level)) + 1]]

NestedVector(d) == Repeated(d, <<0, 11, 0, 1>>, <<0, 0, 5>>)

NestedStruct(d) == Repeated(d, <<0, 12, 0, 1, 0, 1, 107>>, <<0, 0, 5>>)

\* The deepest nesting among the inputs.
MaxNesting == 65

NestDepths == {1, 2, MaxNesting - 1, MaxNesting}

VariantInputs ==
    UNION {{u16be(t) \o ValidValue(t),
            u16be(t) \o Take(ValidValue(t), Len(ValidValue(t)) - 1)} : t \in Tags}
    \cup {NestedVector(d) : d \in NestDepths}
    \cup {NestedStruct(d) : d \in NestDepths}

\* parse_variant(data)
ParseVariant ==
    /\ pin # NoInput
    /\ pout = NoOutput
    /\ pout' = [op |-> "parse_variant", r |-> parse_variant(pin.data),
                depth |-> variant_depth(pin.data)]
    /\ UNCHANGED <<kind, addr, state, buf, pos, cap, ubuf, sock, wire, closed, dgrams, dwire,
                   segs, ret, pre, delivered, polls, pin>>

DecodeInputs == HeaderInputs \cup OptionalInputs \cup VariantInputs

InitDecode ==
    /\ kind = "tcp"
    /\ segs = <<GARBAGE_NONE, PACKET_EMPTY>>
    /\ state = "Pending"
    /\ addr = new_addr(kind)
    /\ buf = <<>>
    /\ pos = 0
    /\ cap = 0
    /\ ubuf = <<>>
    /\ sock = <<>>
    /\ wire = <<>>
    /\ closed = FALSE
    /\ dgrams = <<>>
    /\ dwire = <<>>
    /\ ret = Ret("none", "None", <<>>, 0, FALSE, FALSE)
    /\ pre = Pre("Pending", <<>>, <<>>)
    /\ delivered = <<>>
    /\ polls = 0
    /\ pin \in {DecodeInput(i) : i \in DecodeInputs}
    /\ pout = NoOutput

NextDecode ==
    \/ ParsePacketHeader
    \/ ParseWorldIntersection
    \/ ParseUserMarker
    \/ ParseVariant

SpecDecode == InitDecode /\ [][NextDecode]_vars

(***************************************************************************)
(* Claims about the decoders called directly (SpecDecode)                  *)
(***************************************************************************)
OptionalCall == pout.op \in {"parse_world_intersection", "parse_user_marker"}

Flag == pin.data[1] * 256 + pin.data[2]

\* The body of the optional type the call decodes, and its value.
BodyBytes ==
    IF pout.op = "parse_user_marker" THEN USER_MARKER_BODY ELSE WORLD_INTERSECTION_BODY

BodyValue ==
    IF pout.op = "parse_user_marker" THEN USER_MARKER_VALUE ELSE WORLD_INTERSECTION_VALUE

\* C12: parse_world_intersection and parse_user_marker decode presence
\* flag 0 to absent and consume exactly the 2 bytes of the flag; decode
\* presence flag 1 followed by a whole body to that body and consume the
\* flag and the body; and fail with a parse error (InvalidPacket to the
\* caller) on every other flag value.
C12_PresenceFlag ==
    (OptionalCall /\ Len(pin.data) >= 2)
    => /\ Flag = 0 => pout.r = Ok(Drop(pin.data, 2), <<"None">>)
       /\ (Flag = 1 /\ IsPrefix(BodyBytes, Drop(pin.data, 2)))
          => pout.r = Ok(Drop(pin.data, 2 + Len(BodyBytes)), <<"Some", BodyValue>>)
       /\ Flag \notin {0, 1} => pout.r.st = "Err"

\* The header check of the wire format, read off the bytes: "SEPD", then
\* the packet type 0x0004, then two more bytes.
HeaderWellFormed(d) ==
    /\ Len(d) >= 8
    /\ d[1] = 83 /\ d[2] = 69 /\ d[3] = 80 /\ d[4] = 68
    /\ d[5] = 0 /\ d[6] = 4

\* C13: parse_packet_header succeeds exactly on the inputs whose bytes 0-3
\* are "SEPD" and whose bytes 4-5 are 0x0004, and then returns as length
\* the big-endian u16 of bytes 6-7, whatever its value; on every other
\* input, the inputs shorter than 8 bytes and the empty one among them, it
\* fails with a parse error.
C13_HeaderCheck ==
    pout.op = "parse_packet_header"
    => /\ pout.r.st = "Ok" <=> HeaderWellFormed(pin.data)
       /\ HeaderWellFormed(pin.data)
          => pout.r.val = [length |-> pin.data[7] * 256 + pin.data[8]]
       /\ ~HeaderWellFormed(pin.data) => pout.r = ParseErr

C13_Witness ==
    /\ pout.op = "parse_packet_header"
    /\ pin.data = <<83, 69, 80, 68, 0, 4, 255, 255>>
    /\ pout.r.st = "Ok"
    /\ pout.r.val.length = 65535

Tag == pin.data[1] * 256 + pin.data[2]

\* The input stops short of the whole value its tag announces.
Truncated ==
    /\ Tag \in ImplementedTags
    /\ Len(pin.data) < 2 + Len(ValidValue(Tag))
    /\ IsPrefix(pin.data, u16be(Tag) \o ValidValue(Tag))

\* C15: parse_variant fails with a parse error on a type tag outside
\* 0x00..0x15, on the reserved tags PacketHeader (0x0F), SubPacketHeader
\* (0x10), Matrix3X3 (0x12) and Matrix2x2 (0x13), and on a tag followed by
\* fewer bytes than its value takes; it neither decodes a value nor panics.
C15_VariantTagErrors ==
    (pout.op = "parse_variant" /\ Len(pin.data) >= 2)
    => /\ Tag \notin 0..21 => pout.r.st = "Err"
       /\ Tag \in {15, 16, 18, 19} => pout.r.st = "Err"
       /\ Truncated => pout.r.st = "Err"

\* C16: decoding a variant never nests count(parse_vector_item, n) and
\* count(parse_struct_item, n) calls more than 64 deep, and an input that
\* nests vectors or structs deeper than 64 is rejected with a parse error.
C16_DepthBound ==
    pout.op = "parse_variant"
    => /\ pout.depth <= 64
       /\ \A d \in NestDepths :
             (d > 64 /\ pin.data \in {NestedVector(d), NestedStruct(d)})
             => pout.r.st = "Err"

(***************************************************************************)
(* More claims about the parser called directly (SpecParse)                *)
(***************************************************************************)
\* Sub-packets whose field id is not in the table, or is one the table
\* reserves.
NoDecoderChunks == {"unknown", "reserved"}

FirstWithoutDecoder(cs, k) ==
    cs[k] \in NoDecoderChunks /\ \A j \in 1..(k - 1) : cs[j] \in GoodChunks

\* C14: a sub-packet whose field id is not in the field table, or is one of
\* the reserved ids, makes parse_sub_packet fail with a parse error, and a
\* packet body holding such a sub-packet after well-formed ones fails with
\* a parse error as a whole: no fields are returned.
C14_UnknownOrReservedField ==
    /\ (/\ pout.op = "parse_sub_packet"
        /\ Len(pin.chunks) >= 1
        /\ pin.chunks[1] \in NoDecoderChunks)
       => pout.r.st = "Err"
    /\ (/\ pout.op \in {"parse_packet_data", "parse_packet"}
        /\ \E k \in 1..Len(pin.chunks) : FirstWithoutDecoder(pin.chunks, k))
       => pout.r.st = "Err"

(***************************************************************************)
(* More claims about the clients (Spec, SpecMisuse)                        *)
(***************************************************************************)
\* The body length a packet's header declares.
BodyLength(p) == p[7] * 256 + p[8]

\* The most bytes a peek or read asks for: the 8 of a header, or the
\* longest body a header of the peer's packets declares.
MaxRequest ==
    LET longest == CHOOSE l \in {BodyLength(p) : p \in Packets} :
                       \A p \in Packets : BodyLength(p) <= l
    IN  Max(PACKET_HEADER_SIZE, longest)

\* C17: the capacity of the stream reader's buffer stays below a bound
\* that depends only on the most bytes N a peek or read asks for: a buffer
\* that moves its unread bytes to the front before it asks for more room
\* never holds more than N bytes at once, and amortized doubling takes its
\* capacity to less than 2 * N, however many bytes have been received.
C17_BufferBounded ==
    (kind = "tcp" /\ state = "Connected") => cap <= 2 * MaxRequest

\* A step of next() on a connected UDP client: it takes a datagram off the
\* socket or counts one more call that found none.
UdpNextStep ==
    /\ kind = "udp"
    /\ state = "Connected"
    /\ state' = "Connected"
    /\ dwire' = dwire
    /\ dgrams' # dgrams \/ polls' # polls

\* What parse_packet makes of the bytes d alone.
AloneKind(d) ==
    IF parse_packet(d).st = "Ok" THEN "Packet"
    ELSE IF parse_packet(d).st = "Panic" THEN "Panic" ELSE "InvalidPacket"

AlonePacket(d) == IF parse_packet(d).st = "Ok" THEN parse_packet(d).val ELSE <<>>

\* C18: a next() on a connected UDP client takes at most one datagram off
\* the socket, the first one waiting, and what it returns is what the bytes
\* of that datagram alone parse to, whatever earlier datagrams (longer
\* ones, ones that failed to parse) have left in the reusable buffer; a
\* datagram that fails to parse is gone after the call and the datagrams
\* behind it are still there, so the next call decodes the next one.
C18_NoCrossCallState ==
    [][UdpNextStep
       => /\ ret'.op = "next"
          /\ dgrams = <<>>
             => /\ ret'.kind \in {"WouldBlock", "ReadFailed"}
                /\ UNCHANGED <<dgrams, delivered>>
          /\ dgrams # <<>>
             => /\ dgrams' = Tail(dgrams)
                /\ ret'.kind = AloneKind(Head(dgrams))
                /\ ret'.packet = AlonePacket(Head(dgrams))
                /\ delivered' = IF ret'.kind = "Packet"
                                THEN Append(delivered, AlonePacket(Head(dgrams)))
                                ELSE delivered]_vars

\* A datagram cut short was refused although the bytes a longer datagram
\* left behind it in the buffer would complete it, and the datagram after
\* it was decoded.
C18_Witness ==
    /\ kind = "udp"
    /\ segs = <<GARBAGE_ZERO, PACKET_FRAME_NUMBER, PACKET_CUT>>
    /\ ret.op = "next"
    /\ ret.kind = "InvalidPacket"
    /\ pre.sock = PACKET_CUT
    /\ ubuf = PACKET_FRAME_NUMBER
    /\ Len(delivered) = 1

\* C19: a next() on a connected UDP client returns a Packet only for a
\* datagram that is a valid 8-byte header followed by exactly as many
\* bytes as the header declares; a datagram with a valid header and fewer
\* bytes than declared, or with bytes after the declared body, yields
\* InvalidPacket.
C19_DatagramIsOnePacket ==
    (/\ ret.op = "next"
     /\ kind = "udp"
     /\ pre.state = "Connected"
     /\ ret.kind \notin {"WouldBlock", "ReadFailed"})
    => /\ ret.kind = "Packet"
          => /\ HeaderWellFormed(pre.sock)
             /\ Len(pre.sock) = PACKET_HEADER_SIZE + BodyLength(pre.sock)
       /\ (/\ HeaderWellFormed(pre.sock)
           /\ Len(pre.sock) # PACKET_HEADER_SIZE + BodyLength(pre.sock))
          => ret.kind = "InvalidPacket"

\* C20: a next() whose read_exact or recv_from met the would-block answer
\* of the operating system returns WouldBlock, never ReadFailed nor
\* InvalidPacket, and one whose read met any other I/O error returns
\* ReadFailed; nothing else makes a next() return either of the two, and
\* the TCP and the UDP client do not differ in this.
C20_WouldBlockMapping ==
    (ret.op = "next" /\ pre.state = "Connected")
    => /\ ret.os = "WouldBlock" => ret.kind = "WouldBlock"
       /\ ret.os \notin {"None", "WouldBlock"} => ret.kind = "ReadFailed"
       /\ ret.kind = "WouldBlock" => ret.os = "WouldBlock"
       /\ ret.kind = "ReadFailed" => ret.os \notin {"None", "WouldBlock"}

\* A next() on a connected TCP client with nothing buffered and nothing on
\* the socket yet: its read met would-block and it returned WouldBlock.
C20_Witness ==
    /\ kind = "tcp"
    /\ pre.state = "Connected"
    /\ pre.unread = <<>>
    /\ pre.sock = <<>>
    /\ ret.op = "next"
    /\ ret.os = "WouldBlock"
    /\ ret.kind = "WouldBlock"

(***************************************************************************)
(* Claims about TCPClient::next and the packets in the stream (Spec)       *)
(***************************************************************************)
\* The bytes a next() had before it, buffered and on the socket, from the
\* first one it did not skip.
FromHeader == Drop(pre.unread \o pre.sock, ret.skipped)

\* The bytes the reader has not consumed, buffered and on the socket.
Ahead == Unread \o sock

\* The packets the peer sends after the first k of them, as bytes.
Remaining(k) == Flatten(Drop(segs, k + 1))

\* C21: a TCP next() that returns a packet returns the packet whose header
\* stands right after the bytes it skipped, and the bytes after that
\* packet's body are all still unread, in order; and as long as no next()
\* has come back without data on a stream of valid packets, every next()
\* has returned a packet, the packets returned are the first ones sent, in
\* order, one per call, and the unread bytes are exactly the packets not
\* yet returned.
C21_OnePacketPerCall ==
    /\ (TcpNextReturned /\ ret.kind = "Packet")
       => /\ HeaderWellFormed(FromHeader)
          /\ Len(FromHeader) >= PACKET_HEADER_SIZE + BodyLength(FromHeader)
          /\ parse_packet(Take(FromHeader, PACKET_HEADER_SIZE + BodyLength(FromHeader)))
                = Ok(<<>>, ret.packet)
          /\ IsPrefix(Drop(FromHeader, PACKET_HEADER_SIZE + BodyLength(FromHeader)), Ahead)
    /\ (TcpNextReturned /\ AllValid /\ polls = 0)
       => /\ ret.kind = "Packet"
          /\ Len(delivered) <= Len(Expected)
          /\ \A k \in 1..Len(delivered) : delivered[k] = Expected[k]
          /\ Ahead \o wire = Remaining(Len(delivered))

\* Two packets were on the socket back to back; next() returned the first
\* and the second is still there, whole.
C21_Witness ==
    /\ TcpNextReturned
    /\ pre.unread = <<>>
    /\ pre.sock = PACKET_FRAME_NUMBER \o PACKET_EMPTY
    /\ ret.kind = "Packet"
    /\ ret.packet = Decoded(PACKET_FRAME_NUMBER)
    /\ delivered = <<Decoded(PACKET_FRAME_NUMBER)>>
    /\ Ahead = PACKET_EMPTY

(***************************************************************************)
(* TcpStreamReader called directly: peek, read and consume in any order on *)
(* a reader whose socket receives the bytes of a stream in chunks.  pin is *)
(* the reader, the socket and the argument of the last call; pout is the   *)
(* call, its result and the slice it returned.                             *)
(***************************************************************************)
\* The length of the stream the peer sends.
MaxStream == 10

\* peek, read and consume are not called any more after this many peeks and
\* reads came back with an error.
MaxFails == 2

\* The bytes of the stream, all different and none of them zero.
READER_STREAM == [k \in 1..MaxStream |-> 10 + k]

\* The sizes of the chunks in which the stream arrives, besides all that is
\* left.
ReaderChunks == {4}

\* The arguments of peek, read and consume.
Requests == {0, 1, 3}

Reader == [buf |-> buf, pos |-> pos, cap |-> cap]

\* The connection is closed once the peer has sent everything and closed it.
AtEof == closed /\ wire = <<>>

ReaderInput(op, n) == [op |-> op, n |-> n, rd |-> Reader, sock |-> sock, eof |-> AtEof]

\* The slice b[from..to] panics when it does not lie within b.
slice_panics(b, from, to) == from > to \/ to > Len(b)

ReaderArrive ==
    /\ kind = "reader"
    /\ pout.st # "Panic"
    /\ \E n \in {m \in ReaderChunks \cup {Len(wire)} : m >= 1 /\ m <= Len(wire)} :
          /\ sock' = sock \o Take(wire, n)
          /\ wire' = Drop(wire, n)
    /\ UNCHANGED <<kind, addr, state, buf, pos, cap, ubuf, closed, dgrams, dwire, segs, ret,
                   pre, delivered, polls, pin, pout>>

\* peek(n)
ReaderPeek ==
    /\ kind = "reader"
    /\ pout.st # "Panic"
    /\ polls < MaxFails
    /\ \E n \in Requests :
       \E r \in {peek(Reader, sock, AtEof, n)} :
          /\ pin' = ReaderInput("peek", n)
          /\ buf' = r.rd.buf
          /\ pos' = r.rd.pos
          /\ cap' = r.rd.cap
          /\ sock' = r.sock
          /\ pout' = IF r.res = "Ok" /\ slice_panics(r.rd.buf, r.rd.pos, r.rd.pos + n)
                      THEN [op |-> "peek", st |-> "Panic", slice |-> <<>>]
                      ELSE [op |-> "peek", st |-> r.res,
                            slice |-> IF r.res = "Ok" THEN Take(buffer(r.rd), n) ELSE <<>>]
          /\ polls' = IF r.res = "Ok" THEN polls ELSE polls + 1
    /\ UNCHANGED <<kind, addr, state, ubuf, wire, closed, dgrams, dwire, segs, ret, pre,
                   delivered>>

\* read(n)
ReaderRead ==
    /\ kind = "reader"
    /\ pout.st # "Panic"
    /\ polls < MaxFails
    /\ \E n \in Requests :
       \E r \in {read(Reader, sock, AtEof, n)} :
          /\ pin' = ReaderInput("read", n)
          /\ buf' = r.rd.buf
          /\ pos' = r.rd.pos
          /\ cap' = r.rd.cap
          /\ sock' = r.sock
          /\ pout' = IF r.res = "Ok" /\ slice_panics(r.rd.buf, r.rd.pos - n, r.rd.pos)
                      THEN [op |-> "read", st |-> "Panic", slice |-> <<>>]
                      ELSE [op |-> "read", st |-> r.res,
                            slice |-> IF r.res = "Ok"
                                      THEN SubSeq(r.rd.buf, r.rd.pos - n + 1, r.rd.pos)
                                      ELSE <<>>]
          /\ polls' = IF r.res = "Ok" THEN polls ELSE polls + 1
    /\ UNCHANGED <<kind, addr, state, ubuf, wire, closed, dgrams, dwire, segs, ret, pre,
                   delivered>>

\* consume(n)
ReaderConsume ==
    /\ kind = "reader"
    /\ pout.st # "Panic"
    /\ polls < MaxFails
    /\ \E n \in Requests :
          /\ pin' = ReaderInput("consume", n)
          /\ IF consume_panics(Reader, n)
             THEN /\ pout' = [op |-> "consume", st |-> "Panic", slice |-> <<>>]
                  /\ UNCHANGED <<buf, pos, cap>>
             ELSE /\ pout' = [op |-> "consume", st |-> "Ok", slice |-> <<>>]
                  /\ buf' = consume(Reader, n).buf
                  /\ pos' = consume(Reader, n).pos
                  /\ cap' = consume(Reader, n).cap
    /\ UNCHANGED <<kind, addr, state, ubuf, sock, wire, closed, dgrams, dwire, segs, ret,
                   pre, delivered, polls>>

InitReader ==
    /\ kind = "reader"
    /\ segs = <<READER_STREAM>>
    /\ state = "Connected"
    /\ addr = "None"
    /\ buf = TcpStreamReader_new.buf
    /\ pos = TcpStreamReader_new.pos
    /\ cap = TcpStreamReader_new.cap
    /\ ubuf = <<>>
    /\ sock = <<>>
    /\ wire = Flatten(segs)
    /\ closed \in BOOLEAN
    /\ dgrams = <<>>
    /\ dwire = <<>>
    /\ ret = Ret("none", "None", <<>>, 0, FALSE, FALSE)
    /\ pre = Pre("Connected", <<>>, <<>>)
    /\ delivered = <<>>
    /\ polls = 0
    /\ pin = ReaderInput("none", 0)
    /\ pout = [op |-> "none", st |-> "Ok", slice |-> <<>>]

NextReader ==
    \/ ReaderArrive
    \/ ReaderPeek
    \/ ReaderRead
    \/ ReaderConsume

SpecReader == InitReader /\ [][NextReader]_vars

(***************************************************************************)
(* Claims about TcpStreamReader (SpecReader, Spec)                         *)
(***************************************************************************)
\* The reader and the socket as the last call found them.
Before == pin.rd

UnreadBefore == buffer(Before)

\* What peek(n) would return now: the result and, on success, the slice.
PeekNow(n) ==
    Bind(peek(Reader, sock, AtEof, n), LAMBDA r :
        [st |-> r.res, slice |-> IF r.res = "Ok" THEN Take(buffer(r.rd), n) ELSE <<>>,
         rd |-> r.rd, sock |-> r.sock])

\* What read(n) would return now.
ReadNow(n) ==
    Bind(read(Reader, sock, AtEof, n), LAMBDA r :
        [st |-> r.res,
         slice |-> IF r.res = "Ok" THEN SubSeq(r.rd.buf, r.rd.pos - n + 1, r.rd.pos)
                   ELSE <<>>,
         rd |-> r.rd, sock |-> r.sock])

\* C22: after a successful peek(n) the unread bytes of the reader start with
\* the n bytes returned; the unread bytes, buffered and on the socket, are
\* the ones that were unread before the call, in the same order; a second
\* peek(n) returns the same bytes and changes neither the reader nor the
\* socket, and a read(n) returns the same bytes.
C22_PeekDoesNotConsume ==
    (kind = "reader" /\ pout.op = "peek" /\ pout.st = "Ok")
    => /\ Len(pout.slice) = pin.n
       /\ Take(Unread, pin.n) = pout.slice
       /\ IsPrefix(UnreadBefore \o pin.sock, Unread \o sock)
       /\ IsPrefix(UnreadBefore, Unread)
       /\ PeekNow(pin.n).st = "Ok"
       /\ PeekNow(pin.n).slice = pout.slice
       /\ PeekNow(pin.n).rd = Reader
       /\ PeekNow(pin.n).sock = sock
       /\ ReadNow(pin.n).st = "Ok"
       /\ ReadNow(pin.n).slice = pout.slice

\* A peek(3) that had one unread byte buffered and took two more off the
\* socket, while a third stayed there.
C22_Witness ==
    /\ kind = "reader"
    /\ pout.op = "peek"
    /\ pout.st = "Ok"
    /\ pin.n = 3
    /\ Len(UnreadBefore) = 1
    /\ Len(pin.sock) >= 3
    /\ pout.slice = UnreadBefore \o Take(pin.sock, 2)
    /\ pos > 0

\* peek(n) on the reader and socket the last call found.
PeekBefore == peek(Before, pin.sock, pin.eof, pin.n)

\* C23: a read(n) returns what peek(n) followed by consume(n) returns on
\* the same reader and socket and leaves what they leave: when the peek
\* succeeds, the consume does not panic, the read succeeded with the
\* peek's slice, and buffer, pos and socket are those after the consume;
\* when the peek fails, the read failed with the same error and left the
\* reader and socket the failed peek leaves, and no unread byte has been
\* passed by: the bytes unread before are still the first unread ones.
C23_ReadIsPeekConsume ==
    (kind = "reader" /\ pout.op = "read")
    => /\ pout.st = PeekBefore.res
       /\ IsPrefix(PeekBefore.sock, sock)
       /\ PeekBefore.res = "Ok"
          => /\ ~consume_panics(PeekBefore.rd, pin.n)
             /\ Reader = consume(PeekBefore.rd, pin.n)
             /\ pout.slice = Take(buffer(PeekBefore.rd), pin.n)
       /\ PeekBefore.res # "Ok"
          => /\ Reader = PeekBefore.rd
             /\ IsPrefix(UnreadBefore, Unread)

\* A read(3) that had one unread byte buffered and took two off the socket.
C23_Witness ==
    /\ kind = "reader"
    /\ pout.op = "read"
    /\ pout.st = "Ok"
    /\ pin.n = 3
    /\ Len(UnreadBefore) = 1
    /\ pout.slice = UnreadBefore \o Take(pin.sock, 2)
    /\ Unread = <<>>

\* C24: a consume(n) with n at most the number of unread bytes buffered
\* adds exactly n to pos and leaves the buffer, its capacity and the socket
\* as they were; a consume(n) with n above that number panics and leaves
\* the reader, pos included, as it was.
C24_Consume ==
    (kind = "reader" /\ pout.op = "consume")
    => /\ IsPrefix(pin.sock, sock)
       /\ pin.n <= Len(UnreadBefore)
          => /\ pout.st = "Ok"
             /\ pos = Before.pos + pin.n
             /\ buf = Before.buf
             /\ cap = Before.cap
             /\ Unread = Drop(UnreadBefore, pin.n)
       /\ pin.n > Len(UnreadBefore)
          => /\ pout.st = "Panic"
             /\ Reader = Before

\* A consume(3) on a reader with one unread byte: it panicked.
C24_Witness ==
    /\ kind = "reader"
    /\ pout.op = "consume"
    /\ pin.n = 3
    /\ Len(UnreadBefore) = 1
    /\ pout.st = "Panic"
    /\ pos = Before.pos

\* C25: in every state of the reader, after any peek, read or consume,
\* successful or not, 0 <= pos <= buf.len() <= buf.capacity(), so that
\* capacity - pos in grow is never negative; and after a successful peek(n)
\* neither consume(n) nor, for n >= 1, consume(1) panics.
C25_ReaderInvariant ==
    kind = "reader"
    => /\ 0 <= pos
       /\ pos <= Len(buf)
       /\ Len(buf) <= cap
       /\ cap - pos >= 0
       /\ (pout.op = "peek" /\ pout.st = "Ok")
          => /\ ~consume_panics(Reader, pin.n)
             /\ pin.n >= 1 => ~consume_panics(Reader, 1)

\* A reader that has consumed bytes, filled its Vec to capacity, and was
\* then moved to a new Vec by a peek: pos is back at 0.
C25_Witness ==
    /\ kind = "reader"
    /\ pout.op = "peek"
    /\ pout.st = "Ok"
    /\ Before.pos > 0
    /\ Before.cap - Before.pos < pin.n - Len(UnreadBefore)
    /\ Len(UnreadBefore) > 0
    /\ pos = 0
    /\ Len(buf) = pin.n

\* The bytes a peek(n) or read(n) lacks in the buffer, and whether grow has
\* to move to a new Vec to fetch them.
Needed == pin.n - Len(UnreadBefore)

Reallocates == Needed > 0 /\ Before.cap - Before.pos < Needed

\* pos after the call, not counting the n bytes a read passes.
PosAfterFill == IF pout.op = "read" THEN pos - pin.n ELSE pos

\* C30: after a successful peek(n) or read(n) that had to fetch bytes, when
\* grow moved to a new Vec the buffer is the bytes that were unread, in
\* order from offset 0, followed by exactly the fetched bytes, which are
\* the first ones that were on the socket, the consumed bytes are gone and
\* pos was reset to 0; when grow did not move, the buffer is the old buffer
\* followed by exactly the fetched bytes and pos was not touched; a call
\* that lacked no byte changes neither buffer nor socket.  (A read then
\* passes its n bytes.)
C30_GrowPreserves ==
    (kind = "reader" /\ pout.op \in {"peek", "read"} /\ pout.st = "Ok")
    => /\ Reallocates
          => /\ buf = UnreadBefore \o Take(pin.sock, Needed)
             /\ PosAfterFill = 0
             /\ IsPrefix(Drop(pin.sock, Needed), sock)
       /\ (Needed > 0 /\ ~Reallocates)
          => /\ buf = Before.buf \o Take(pin.sock, Needed)
             /\ PosAfterFill = Before.pos
             /\ IsPrefix(Drop(pin.sock, Needed), sock)
       /\ Needed <= 0
          => /\ buf = Before.buf
             /\ PosAfterFill = Before.pos
             /\ IsPrefix(pin.sock, sock)

\* A read(3) of a reader that had consumed 7 bytes of a full Vec of 8: the
\* unread byte was moved to the front of a new Vec and two bytes fetched.
C30_Witness ==
    /\ kind = "reader"
    /\ pout.op = "read"
    /\ pout.st = "Ok"
    /\ pin.n = 3
    /\ Before.pos = 7
    /\ Len(Before.buf) = 8
    /\ Before.cap = 8
    /\ buf = UnreadBefore \o Take(pin.sock, 2)
    /\ pos = 3

(***************************************************************************)
(* More claims about TCPClient::next (Spec)                                *)
(***************************************************************************)
\* What next() would return now, with the bytes that are on the socket.
NextNow == tcp_next(Reader, sock, FALSE)

BadBodyReturned == TcpNextReturned /\ ret.kind = "InvalidPacket"

\* C26: when a TCP next() returns InvalidPacket, a valid header stood right
\* after the bytes it skipped, that header and the whole body it declares
\* were there and have been consumed, the bytes after the body are all
\* still unread, and the client is still Connected; and when a whole valid
\* packet stands right after that body, the next next() returns it without
\* skipping a byte.
C26_BadBodyConsumed ==
    BadBodyReturned
    => /\ state = "Connected"
       /\ ret.hdr
       /\ HeaderWellFormed(FromHeader)
       /\ Len(FromHeader) >= PACKET_HEADER_SIZE + BodyLength(FromHeader)
       /\ IsPrefix(Drop(FromHeader, PACKET_HEADER_SIZE + BodyLength(FromHeader)), Ahead)
       /\ \A p \in ValidPackets :
             IsPrefix(p, Ahead)
             => /\ NextNow.kind = "Packet"
                /\ NextNow.packet = Decoded(p)
                /\ NextNow.skipped = 0
                /\ buffer(NextNow.rd) \o NextNow.sock = Drop(Ahead, Len(p))

\* next() has returned InvalidPacket for a packet with a bad body, and the
\* valid packet sent right after it is waiting, whole.
C26_Witness ==
    /\ BadBodyReturned
    /\ segs = <<GARBAGE_ZERO, PACKET_BAD_BODY, PACKET_FRAME_NUMBER>>
    /\ ret.skipped = 1
    /\ Ahead = PACKET_FRAME_NUMBER
    /\ delivered = <<>>

\* The packet after the bad one has been returned by the call that followed.
C26_Returned ==
    /\ TcpNextReturned
    /\ segs = <<GARBAGE_ZERO, PACKET_BAD_BODY, PACKET_FRAME_NUMBER>>
    /\ pre.unread \o pre.sock = PACKET_FRAME_NUMBER
    /\ ret.kind = "Packet"
    /\ ret.skipped = 0
    /\ polls = 0

\* C29: every TCP next() ends: the header search is over within one turn
\* more than there were bytes buffered and on the socket, and the call
\* returns a Packet, WouldBlock, ReadFailed or InvalidPacket after skipping
\* at most as many bytes as there were.
C29_NextTerminates ==
    TcpNextReturned
    => /\ ret.kind \in {"Packet", "WouldBlock", "ReadFailed", "InvalidPacket"}
       /\ ret.skipped <= Len(pre.unread) + Len(pre.sock)
       /\ ret.kind \in {"Packet", "InvalidPacket"}
          => ret.skipped + PACKET_HEADER_SIZE <= Len(pre.unread) + Len(pre.sock)

\* A next() that skipped every byte it had, three of them buffered and one
\* on the socket, and then found the socket empty.
C29_Witness ==
    /\ TcpNextReturned
    /\ ret.kind = "WouldBlock"
    /\ ret.skipped >= 3
    /\ ret.skipped + PACKET_HEADER_SIZE > Len(pre.unread) + Len(pre.sock)
    /\ pre.sock # <<>>

(***************************************************************************)
(* More claims about the lifecycle (SpecMisuse)                            *)
(***************************************************************************)
\* C27: a connect() on a Pending client either succeeds, and the client is
\* Connected, or returns ConnectFailed, and then the client is still
\* Pending, holds the address it was built with, and a connect() that
\* succeeds is possible from there; the client is Connected only after a
\* connect() that returned Ok.
C27_ConnectFailure ==
    /\ (ret.op = "connect" /\ pre.state = "Pending")
       => \/ /\ ret.kind = "Ok"
             /\ state = "Connected"
          \/ /\ ret.kind = "ConnectFailed"
             /\ state = "Pending"
             /\ addr = new_addr(kind)
             /\ ENABLED (Connect /\ ret'.kind = "Ok" /\ state' = "Connected")
    /\ (state = "Pending") => addr = new_addr(kind)
    /\ (ret.op = "connect" /\ state = "Connected") => ret.kind \in {"Ok", "Panic"}

\* A UDP connect() has failed: the client is Pending and has its address.
C27_Witness ==
    /\ kind = "udp"
    /\ ret.op = "connect"
    /\ ret.kind = "ConnectFailed"
    /\ pre.state = "Pending"
    /\ state = "Pending"
    /\ addr = "0.0.0.0:port"

\* C28: a disconnect() on a Connected client leaves it Disconnected whether
\* it returns Ok or, for TCP when the shutdown reports an error,
\* DisconnectFailed; a UDP disconnect() always returns Ok; and a
\* disconnect() or next() on the Disconnected client panics and leaves it
\* Disconnected.
C28_DisconnectAlways ==
    /\ (ret.op = "disconnect" /\ pre.state = "Connected")
       => /\ state = "Disconnected"
          /\ ret.kind \in {"Ok", "DisconnectFailed"}
          /\ kind = "udp" => ret.kind = "Ok"
    /\ (ret.op \in {"disconnect", "next"} /\ pre.state = "Disconnected")
       => /\ ret.kind = "Panic"
          /\ state = "Disconnected"

\* A TCP disconnect() has returned DisconnectFailed and the client is
\* Disconnected.
C28_Witness ==
    /\ kind = "tcp"
    /\ ret.op = "disconnect"
    /\ ret.kind = "DisconnectFailed"
    /\ pre.state = "Connected"
    /\ state = "Disconnected"

====
